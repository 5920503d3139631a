-------------------------- MODULE PromotionProofs ---------------------------
(***************************************************************************)
(* Theorems about Promotion, for any chain, fleet, number of processes and *)
(* number of operations: the composition of the spine with the reconcile   *)
(* jobs implements Release, a promotion carries what its source published, *)
(* and nothing is promoted that did not reach the previous stage.          *)
(*                                                                         *)
(* The invariant says of the operation table what queue() puts there and   *)
(* no later write changes, says the same of the commands that have read    *)
(* but not yet queued, and ties both to the release rows.                  *)
(***************************************************************************)
EXTENDS Promotion, ReleaseProofs

(* What a row of operation, or a command that will write one, may carry.   *)
Carries(env, rev, gateways, parent, source) ==
    /\ env \in Envs /\ rev \in Revs
    /\ \A g \in gateways : EnvOf[g] = env
    /\ parent # 0 =>
          /\ parent \in OpIds /\ op[parent].state # "none"
          /\ op[parent].rev = rev /\ op[parent].env = source

OpsSound ==
    \A i \in OpIds :
        /\ i > nop => op[i].state = "none"
        /\ op[i].state = "none" => op[i].env = NoEnv /\ op[i].source = NoEnv /\ op[i].parent = 0
        /\ op[i].state # "none" =>
              Carries(op[i].env, op[i].rev, op[i].gateways, op[i].parent, op[i].source)

RequestsSound ==
    \A p \in Processes, s \in 1..MaxRequests :
        request[p][s].kind # "none" =>
            /\ Carries(request[p][s].env, request[p][s].rev, request[p][s].gateways,
                       request[p][s].parent, request[p][s].source)
            /\ request[p][s].kind = "configure" =>
                  request[p][s].source = NoEnv /\ request[p][s].parent = 0

DueKnown == \A p \in Processes : \A i \in spine[p].due : op[i].state # "none"

(* What was applied reached the fleet and, before it, the stage it was     *)
(* captured from; so had a live release promoted without an operation.     *)
ArrivedOp(o) ==
    /\ o.state \in AppliedStates => ReachedFleet(o.rev, o.env)
    /\ o.source # NoEnv /\ (o.parent = 0 \/ o.state \in AppliedStates) =>
          ReachedFleet(o.rev, o.source)
ArrivedRequest(r) ==
    r.kind = "promote" /\ r.parent = 0 => ReachedFleet(r.rev, r.source)
Arrived ==
    alive => /\ \A i \in OpIds : ArrivedOp(op[i])
             /\ \A p \in Processes, s \in 1..MaxRequests : ArrivedRequest(request[p][s])

(* Every configure that was accepted queued an operation.                  *)
EtagBound == etag <= nop

PInv ==
    /\ IInv /\ PromotionTypeOK
    /\ OpsSound /\ RequestsSound /\ DueKnown /\ Arrived /\ EtagBound

-----------------------------------------------------------------------------
LEMMA InitPInv == PromotionInit => PInv
  <1> SUFFICES ASSUME PromotionInit PROVE PInv OBVIOUS
  <1>1. IInv
    BY InitIInv DEF PromotionInit
  <1>2. NoOp \in Op /\ NoRequest \in Request /\ NotStarted \in SpinePass
    BY PromotionAssumption DEF PromotionAssumption, NoOp, Op, NoRequest, Request,
       NotStarted, SpinePass
  <1>3. PromotionTypeOK
    BY <1>1, <1>2, PromotionAssumption DEF PromotionAssumption, IInv, PromotionInit, PromotionTypeOK
  <1>4. /\ \A i \in OpIds : op[i] = NoOp
        /\ \A p \in Processes, s \in 1..MaxRequests : request[p][s] = NoRequest
        /\ \A p \in Processes : spine[p] = NotStarted
    BY DEF PromotionInit
  <1>5. OpsSound /\ RequestsSound /\ DueKnown /\ Arrived
    BY <1>4 DEF OpsSound, RequestsSound, DueKnown, Arrived, ArrivedOp, ArrivedRequest, NoOp,
       NoRequest, NotStarted, AppliedStates
  <1>6. EtagBound
    BY DEF PromotionInit, EtagBound
  <1> QED BY <1>1, <1>3, <1>5, <1>6 DEF PInv

-----------------------------------------------------------------------------
(* An operation that is applied is the spine's write of Release; every     *)
(* other step of the spine leaves the release side alone.                  *)
LEMMA RunOperationIsSpineWrites ==
    ASSUME PInv, NEW p \in Processes, RunOperation(p)
    PROVE  SpineWrites(p) \/ UNCHANGED releaseVars
  <1>1. /\ pass[p].step = "operations"
        /\ UNCHANGED <<queue, fleet, alive, pass, floor>>
    BY DEF RunOperation
  <1>2. PICK i \in spine[p].due : OpWaits(i) \/ OpApplies(i) \/ OpFails(i)
    BY DEF RunOperation
  <1>3. CASE OpWaits(i) \/ OpFails(i)
    BY <1>1, <1>3 DEF OpWaits, OpFails, releaseVars
  <1>4. CASE OpApplies(i)
    <2>1. i \in OpIds /\ op[i].state # "none" /\ op[i] \in Op
      BY DEF PInv, DueKnown, PromotionTypeOK, SpinePass
    <2>2. PICK e \in Envs, rev \in Revs : e = op[i].env /\ rev = op[i].rev
      BY <2>1 DEF PInv, OpsSound, Carries
    <2>3. \A g \in op[i].gateways : g \in Gateways /\ EnvOf[g] = e
      BY <2>1, <2>2 DEF PInv, OpsSound, Carries, Op
    <2>4. PICK chosen \in SUBSET Gateways : chosen = Chosen(i)
      BY <2>3 DEF Chosen, Present
    <2>5. \A g \in chosen : gateway[g] = "open" /\ EnvOf[g] = e
      BY <1>4, <2>2, <2>3, <2>4 DEF OpApplies, Unavailable, Chosen, Present
    <2>6. SpineMay(e, chosen)
      BY <1>4, <2>2, <2>4, <2>5 DEF SpineMay, OpApplies, Unavailable, Present
    <2>7. GoLive(e, rev, chosen)
      BY <1>4, <2>2, <2>4 DEF OpApplies
    <2> QED BY <1>1, <2>6, <2>7 DEF SpineWrites
  <1> QED BY <1>2, <1>3, <1>4

LEMMA StepIsReleaseStep ==
    ASSUME PInv, PromotionNext
    PROVE  [Next]_releaseVars
  <1>1. PICK p \in Processes :
          \/ Commands(p) \/ RunSpine(p) \/ RunJobs(p) \/ HandleRelease(p) \/ Die(p)
          \/ \E e \in Envs : FleetReports(p, e) \/ DocumentChanges(p, e)
    BY DEF PromotionNext
  <1>2. CASE Commands(p)
    <2>1. UNCHANGED releaseVars
      BY <1>2 DEF Commands, Publish, BeginConfigure, FinishConfigure, BeginPromote, FinishPromote
    <2> QED BY <2>1
  <1>3. CASE RunSpine(p)
    <2>1. SelectOps(p) \/ Settle(p) => UNCHANGED releaseVars
      BY DEF SelectOps, Settle
    <2> QED BY <1>3, <2>1, RunOperationIsSpineWrites DEF RunSpine, Next
  <1>4. CASE RunJobs(p) \/ HandleRelease(p) \/ Die(p)
    BY <1>4 DEF RunJobs, HandleRelease, Die, Next
  <1>5. CASE \E e \in Envs : FleetReports(p, e) \/ DocumentChanges(p, e)
    <2>1. UNCHANGED releaseVars
      BY <1>5 DEF FleetReports, DocumentChanges
    <2> QED BY <2>1
  <1> QED BY <1>1, <1>2, <1>3, <1>4, <1>5

(* What reached a fleet has reached it for as long as the API exists, and  *)
(* a deleted API is not brought back.                                      *)
LEMMA ReachedKept ==
    ASSUME PInv, [Next]_releaseVars, alive'
    PROVE  alive /\ \A rev, e : ReachedFleet(rev, e) => ReachedFleet(rev, e)'
  <1>1. CASE UNCHANGED releaseVars
    BY <1>1 DEF releaseVars, rows, ReachedFleet, Reached, In
  <1>2. CASE Next
    <2>1. alive
      <3>1. PICK p \in Processes :
              Handlers(p) \/ Tick(p) \/ SpineWrites(p) \/ Runner(p) \/ Crash(p)
        BY <1>2 DEF Next
      <3>2. CASE Handlers(p)
        BY <3>2 DEF Handlers, Confirm, Withdraw, DeleteResource, CreateGateway,
           DeleteGateway, SetPaused, Obstruct
      <3>3. CASE Tick(p) \/ SpineWrites(p) \/ Crash(p)
        BY <3>3 DEF Tick, SpineWrites, Crash
      <3>4. CASE Runner(p)
        BY <3>4 DEF Runner, SelectJobs, TakeJob, Reconcile, MarkJob, EndPass
      <3> QED BY <3>1, <3>2, <3>3, <3>4
    <2>2. \A i \in RelIds : Forward(i) /\ rel[i] \in Row
      BY <1>2, ForwardStep DEF Erased, PInv, IInv, TypeOK
    <2>3. \A i \in RelIds : rel[i].state # "none" =>
            /\ rel'[i].env = rel[i].env /\ rel'[i].rev = rel[i].rev
            /\ rel[i].state \in ReachedStates => rel'[i].state \in ReachedStates
      BY <2>2 DEF Forward, Row, ReachedStates
    <2> QED BY <2>1, <2>3 DEF ReachedFleet, Reached, In, ReachedStates
  <1> QED BY <1>1, <1>2

-----------------------------------------------------------------------------
(* A write that changes nothing of a row but its state and attempts.       *)
OpKept(i) ==
    /\ op'[i].env = op[i].env /\ op'[i].rev = op[i].rev
    /\ op'[i].gateways = op[i].gateways /\ op'[i].parent = op[i].parent
    /\ op'[i].source = op[i].source
    /\ (op'[i].state = "none") <=> (op[i].state = "none")

LEMMA OpsKept ==
    ASSUME PInv, UNCHANGED nop, \A i \in OpIds : OpKept(i)
    PROVE  /\ OpsSound'
           /\ \A e, rev, gs, parent, source :
                 Carries(e, rev, gs, parent, source) => Carries(e, rev, gs, parent, source)'
  <1>1. \A e, rev, gs, parent, source :
           Carries(e, rev, gs, parent, source) => Carries(e, rev, gs, parent, source)'
    BY DEF Carries, OpKept
  <1>2. OpsSound'
    <2> SUFFICES ASSUME NEW i \in OpIds
                 PROVE  /\ i > nop => op'[i].state = "none"
                        /\ op'[i].state = "none" =>
                              op'[i].env = NoEnv /\ op'[i].source = NoEnv /\ op'[i].parent = 0
                        /\ op'[i].state # "none" =>
                              Carries(op[i].env, op[i].rev, op[i].gateways,
                                      op[i].parent, op[i].source)'
      BY DEF OpsSound
    <2> QED BY <1>1 DEF PInv, OpsSound, OpKept, Carries
  <1> QED BY <1>1, <1>2

(* queue() writes a new row after all others.                              *)
LEMMA OpsGrow ==
    ASSUME PInv, NEW e \in Envs, NEW rev \in Revs, NEW gs \in SUBSET Gateways,
           NEW parent \in 0..MaxOps, NEW source \in Envs \cup {NoEnv},
           Carries(e, rev, gs, parent, source),
           Enqueue(e, rev, gs, parent, source)
    PROVE  /\ op' \in [OpIds -> Op] /\ nop' \in 0..MaxOps /\ OpsSound'
           /\ nop + 1 \in OpIds /\ op[nop + 1].state = "none"
           /\ op'[nop + 1] = [env |-> e, rev |-> rev, gateways |-> gs, parent |-> parent,
                              source |-> source, state |-> "queued", attempts |-> 0]
           /\ \A i \in OpIds : i # nop + 1 => op'[i] = op[i]
           /\ \A x, r, g, pa, so : Carries(x, r, g, pa, so) => Carries(x, r, g, pa, so)'
  <1> DEFINE new == [env |-> e, rev |-> rev, gateways |-> gs, parent |-> parent,
                     source |-> source, state |-> "queued", attempts |-> 0]
  <1>1. /\ op \in [OpIds -> Op] /\ nop \in Nat /\ MaxOps \in Nat /\ nop < MaxOps
        /\ nop' = nop + 1 /\ op' = [op EXCEPT ![nop + 1] = new]
    BY PromotionAssumption DEF PInv, PromotionTypeOK, Enqueue, PromotionAssumption
  <1>2. nop + 1 \in OpIds /\ nop' \in 0..MaxOps
    BY <1>1 DEF OpIds
  <1>3. new \in Op
    <2>1. 0 \in 0..MaxAttempts
      BY PromotionAssumption DEF PromotionAssumption
    <2> QED BY <2>1 DEF Op, PendingStates
  <1> HIDE DEF new
  <1>4. /\ op' \in [OpIds -> Op] /\ op'[nop + 1] = new
        /\ \A i \in OpIds : i # nop + 1 => op'[i] = op[i]
    BY <1>1, <1>2, <1>3
  <1>5. op[nop + 1].state = "none"
    BY <1>1, <1>2 DEF PInv, OpsSound
  <1>6. \A x, r, g, pa, so : Carries(x, r, g, pa, so) => Carries(x, r, g, pa, so)'
    BY <1>4, <1>5 DEF Carries
  <1>7. OpsSound'
    <2> SUFFICES ASSUME NEW i \in OpIds
                 PROVE  /\ i > nop' => op'[i].state = "none"
                        /\ op'[i].state = "none" =>
                              op'[i].env = NoEnv /\ op'[i].source = NoEnv /\ op'[i].parent = 0
                        /\ op'[i].state # "none" =>
                              Carries(op[i].env, op[i].rev, op[i].gateways,
                                      op[i].parent, op[i].source)'
      BY DEF OpsSound
    <2>1. CASE i = nop + 1
      <3>1. Carries(e, rev, gs, parent, source)'
        BY <1>6
      <3> QED BY <1>1, <1>4, <2>1, <3>1 DEF new, Carries
    <2>2. CASE i # nop + 1
      <3>1. i > nop' => i > nop
        BY <1>1, <1>2 DEF OpIds
      <3> QED BY <1>1, <1>4, <1>6, <2>2, <3>1 DEF PInv, OpsSound, Carries
    <2> QED BY <2>1, <2>2
  <1> QED BY <1>2, <1>4, <1>5, <1>6, <1>7 DEF new

(* Commands that are kept or dropped stay sound while operations are only  *)
(* added or moved on.                                                      *)
LEMMA RequestsKept ==
    ASSUME PInv,
           \A p \in Processes, s \in 1..MaxRequests :
              request'[p][s] = request[p][s] \/ request'[p][s].kind = "none",
           \A x, r, g, pa, so : Carries(x, r, g, pa, so) => Carries(x, r, g, pa, so)'
    PROVE  RequestsSound'
  <1> SUFFICES ASSUME NEW p \in Processes, NEW s \in 1..MaxRequests,
                      request'[p][s].kind # "none"
               PROVE  /\ Carries(request[p][s].env, request[p][s].rev, request[p][s].gateways,
                                 request[p][s].parent, request[p][s].source)'
                      /\ request'[p][s].kind = "configure" =>
                            request'[p][s].source = NoEnv /\ request'[p][s].parent = 0
    BY DEF RequestsSound
  <1>1. request'[p][s] = request[p][s]
    OBVIOUS
  <1>2. PICK r : r = request[p][s]
    OBVIOUS
  <1>3. /\ Carries(r.env, r.rev, r.gateways, r.parent, r.source)
        /\ r.kind = "configure" => r.source = NoEnv /\ r.parent = 0
    BY <1>1, <1>2 DEF PInv, RequestsSound
  <1>4. Carries(r.env, r.rev, r.gateways, r.parent, r.source)'
    BY <1>3
  <1> QED BY <1>1, <1>2, <1>3, <1>4 DEF Carries

(* Operations and commands that had arrived when they were written, or     *)
(* arrive with the step, keep the invariant.                               *)
LEMMA ArrivedStep ==
    ASSUME PInv, [Next]_releaseVars,
           alive /\ alive' => \A i \in OpIds : ArrivedOp(op'[i]) \/ ArrivedOp(op[i])',
           alive /\ alive' => \A p \in Processes, s \in 1..MaxRequests :
              ArrivedRequest(request'[p][s])
    PROVE  Arrived'
  <1> SUFFICES ASSUME alive'
               PROVE  /\ \A i \in OpIds : ArrivedOp(op[i])'
                      /\ \A p \in Processes, s \in 1..MaxRequests :
                            ArrivedRequest(request[p][s])'
    BY DEF Arrived
  <1>1. alive /\ \A rev, e : ReachedFleet(rev, e) => ReachedFleet(rev, e)'
    BY ReachedKept
  <1>2. ASSUME NEW o, ArrivedOp(o) PROVE ArrivedOp(o)'
    BY <1>1, <1>2 DEF ArrivedOp
  <1>3. ASSUME NEW r, ArrivedRequest(r) PROVE ArrivedRequest(r)'
    BY <1>1, <1>3 DEF ArrivedRequest
  <1>4. ASSUME NEW i \in OpIds PROVE ArrivedOp(op[i])'
    <2>1. CASE ArrivedOp(op'[i])
      <3>1. PICK o : o = op'[i]
        OBVIOUS
      <3>2. ArrivedOp(o)'
        BY <1>2, <2>1, <3>1
      <3> QED BY <3>1, <3>2 DEF ArrivedOp, ReachedFleet
    <2> QED BY <1>1, <2>1
  <1>5. ASSUME NEW p \in Processes, NEW s \in 1..MaxRequests
        PROVE  ArrivedRequest(request[p][s])'
    <2>1. PICK r : r = request'[p][s]
      OBVIOUS
    <2>2. ArrivedRequest(r)'
      BY <1>1, <1>3, <2>1
    <2> QED BY <2>1, <2>2 DEF ArrivedRequest, ReachedFleet
  <1> QED BY <1>4, <1>5

LEMMA ArrivedKept ==
    ASSUME PInv, [Next]_releaseVars,
           \A i \in OpIds : op'[i] = op[i],
           \A p \in Processes, s \in 1..MaxRequests :
              request'[p][s] = request[p][s] \/ request'[p][s].kind = "none"
    PROVE  Arrived'
  <1>1. alive => \A i \in OpIds : ArrivedOp(op'[i])
    BY DEF PInv, Arrived
  <1>2. alive => \A p \in Processes, s \in 1..MaxRequests : ArrivedRequest(request'[p][s])
    BY DEF PInv, Arrived, ArrivedRequest
  <1> QED BY <1>1, <1>2, ArrivedStep

-----------------------------------------------------------------------------
LEMMA BehindType == PInv => Behind \in [Envs -> BOOLEAN]
  BY DEF Behind

(* The release side, the fleet's reports and a crash write no operation.   *)
LEMMA ReleaseSidePInv ==
    ASSUME PInv, IInv', [Next]_releaseVars, NEW p \in Processes,
           RunJobs(p) \/ HandleRelease(p) \/ Die(p)
    PROVE  PInv'
  <1>1. UNCHANGED <<op, nop, etag, written>>
    BY DEF RunJobs, HandleRelease, Die
  <1>2. /\ request' \in [Processes -> [1..MaxRequests -> Request]]
        /\ \A q \in Processes, s \in 1..MaxRequests :
              request'[q][s] = request[q][s] \/ request'[q][s].kind = "none"
    <2>1. request \in [Processes -> [1..MaxRequests -> Request]]
      BY DEF PInv, PromotionTypeOK
    <2>2. NoRequest \in Request /\ NoRequest.kind = "none"
      BY PromotionAssumption DEF PromotionAssumption, NoRequest, Request
    <2>3. \/ request' = request
          \/ request' = [request EXCEPT ![p] = [s \in 1..MaxRequests |-> NoRequest]]
      BY DEF RunJobs, HandleRelease, Die
    <2> QED BY <2>1, <2>2, <2>3
  <1>3. spine' \in [Processes -> SpinePass] /\ DueKnown'
    <2>1. spine' = spine \/ spine' = [spine EXCEPT ![p] = NotStarted]
      BY DEF RunJobs, HandleRelease, Die
    <2>2. NotStarted \in SpinePass /\ NotStarted.due = {}
      BY DEF NotStarted, SpinePass
    <2> QED BY <1>1, <2>1, <2>2 DEF PInv, PromotionTypeOK, DueKnown
  <1>4. acked' \in [Envs -> BOOLEAN]
    <2>1. acked' = acked \/ acked' = Behind
      BY DEF RunJobs, HandleRelease, Die
    <2> QED BY <2>1, BehindType DEF PInv, PromotionTypeOK
  <1>5. opFloor' \in [Envs -> 0..MaxOps]
    BY DEF RunJobs, HandleRelease, Die, PInv, PromotionTypeOK
  <1>6. PromotionTypeOK'
    BY <1>1, <1>2, <1>3, <1>4, <1>5 DEF PInv, PromotionTypeOK, IInv
  <1>7. OpsSound' /\ RequestsSound'
    BY <1>1, <1>2, OpsKept, RequestsKept DEF OpKept
  <1>8. Arrived' /\ EtagBound'
    BY <1>1, <1>2, ArrivedKept DEF PInv, EtagBound
  <1> QED BY <1>3, <1>6, <1>7, <1>8 DEF PInv

LEMMA ReportPInv ==
    ASSUME PInv, IInv', [Next]_releaseVars, NEW p \in Processes,
           SelectOps(p) \/ \E e \in Envs : FleetReports(p, e) \/ DocumentChanges(p, e)
    PROVE  PInv'
  <1>1. UNCHANGED <<op, nop, request, etag, written, opFloor>>
    BY DEF SelectOps, FleetReports, DocumentChanges
  <1>2. spine' \in [Processes -> SpinePass] /\ DueKnown'
    <2>1. \/ spine' = spine
          \/ \E due \in SUBSET OpIds :
                /\ \A i \in due : op[i].state \in PendingStates
                /\ spine' = [spine EXCEPT ![p] = [step |-> "run", due |-> due]]
      BY DEF SelectOps, FleetReports, DocumentChanges
    <2>2. CASE spine' = spine
      BY <1>1, <2>2 DEF PInv, PromotionTypeOK, DueKnown
    <2>3. CASE spine' # spine
      <3>1. PICK due \in SUBSET OpIds :
              /\ \A i \in due : op[i].state \in PendingStates
              /\ spine' = [spine EXCEPT ![p] = [step |-> "run", due |-> due]]
        BY <2>1, <2>3
      <3>2. spine \in [Processes -> SpinePass] /\ [step |-> "run", due |-> due] \in SpinePass
        BY DEF PInv, PromotionTypeOK, SpinePass
      <3>3. /\ spine' \in [Processes -> SpinePass] /\ spine'[p].due = due
            /\ \A q \in Processes : q # p => spine'[q] = spine[q]
        BY <3>1, <3>2
      <3> QED BY <1>1, <3>1, <3>3 DEF PInv, DueKnown, PendingStates
    <2> QED BY <2>2, <2>3
  <1>3. acked' \in [Envs -> BOOLEAN]
    BY DEF SelectOps, FleetReports, DocumentChanges, PInv, PromotionTypeOK
  <1>4. PromotionTypeOK'
    BY <1>1, <1>2, <1>3 DEF PInv, PromotionTypeOK, IInv
  <1>5. OpsSound' /\ RequestsSound' /\ Arrived'
    BY <1>1, OpsKept, RequestsKept, ArrivedKept DEF OpKept
  <1>6. EtagBound'
    BY <1>1 DEF PInv, EtagBound
  <1> QED BY <1>2, <1>4, <1>5, <1>6 DEF PInv

(* A command queues its operation: nothing has been applied by it.         *)
LEMMA QueuedPInv ==
    ASSUME PInv, IInv', [Next]_releaseVars,
           NEW e \in Envs, NEW rev \in Revs, NEW gs \in SUBSET Gateways,
           NEW parent \in 0..MaxOps, NEW source \in Envs \cup {NoEnv},
           Carries(e, rev, gs, parent, source),
           alive' /\ source # NoEnv /\ parent = 0 => ReachedFleet(rev, source),
           Enqueue(e, rev, gs, parent, source),
           request' \in [Processes -> [1..MaxRequests -> Request]],
           \A p \in Processes, s \in 1..MaxRequests :
              request'[p][s] = request[p][s] \/ request'[p][s].kind = "none",
           etag' \in Nat, etag' <= nop + 1, UNCHANGED <<acked, spine, written, opFloor>>
    PROVE  PInv'
  <1> DEFINE new == [env |-> e, rev |-> rev, gateways |-> gs, parent |-> parent,
                     source |-> source, state |-> "queued", attempts |-> 0]
  <1>1. /\ op' \in [OpIds -> Op] /\ nop' \in 0..MaxOps /\ OpsSound'
        /\ nop + 1 \in OpIds /\ op[nop + 1].state = "none" /\ op'[nop + 1] = new
        /\ \A i \in OpIds : i # nop + 1 => op'[i] = op[i]
        /\ \A x, r, g, pa, so : Carries(x, r, g, pa, so) => Carries(x, r, g, pa, so)'
    BY OpsGrow
  <1>2. PromotionTypeOK' /\ EtagBound'
    <2>1. nop' = nop + 1
      BY DEF Enqueue
    <2>2. etag' \in 0..MaxOps /\ EtagBound'
      BY <1>1, <2>1, PromotionAssumption
         DEF EtagBound, PromotionAssumption, PInv, PromotionTypeOK
    <2> QED BY <1>1, <2>2 DEF PInv, PromotionTypeOK, IInv
  <1>3. RequestsSound'
    BY <1>1, RequestsKept
  <1>4. DueKnown'
    BY <1>1 DEF PInv, DueKnown, PromotionTypeOK, SpinePass
  <1>5. Arrived'
    <2>1. alive /\ alive' => \A i \in OpIds : ArrivedOp(op'[i])
      <3> SUFFICES ASSUME alive, alive', NEW i \in OpIds PROVE ArrivedOp(op'[i])
        OBVIOUS
      <3>1. CASE i = nop + 1
        <4>1. op'[i] = new
          BY <1>1, <3>1
        <4> QED BY <4>1 DEF ArrivedOp, AppliedStates
      <3>2. CASE i # nop + 1
        <4>1. op'[i] = op[i]
          BY <1>1, <3>2
        <4> QED BY <4>1 DEF PInv, Arrived
      <3> QED BY <3>1, <3>2
    <2>2. alive => \A p \in Processes, s \in 1..MaxRequests : ArrivedRequest(request'[p][s])
      BY DEF PInv, Arrived, ArrivedRequest
    <2> QED BY <2>1, <2>2, ArrivedStep
  <1> QED BY <1>1, <1>2, <1>3, <1>4, <1>5 DEF PInv

-----------------------------------------------------------------------------
LEMMA PublishPInv ==
    ASSUME PInv, IInv', [Next]_releaseVars, NEW p \in Processes, Publish(p)
    PROVE  PInv'
  <1>1. PICK e \in Envs, rev \in Revs, gs \in SUBSET Gateways :
          (\A g \in gs : EnvOf[g] = e) /\ Enqueue(e, rev, gs, 0, NoEnv)
    BY PromotionAssumption DEF PromotionAssumption, Publish, GatewayLists, Named, Present, Offered, Fresh
  <1>2. PICK parent \in 0..MaxOps, source \in Envs \cup {NoEnv} : parent = 0 /\ source = NoEnv
    BY PromotionAssumption DEF PromotionAssumption
  <1>3. Carries(e, rev, gs, parent, source) /\ Enqueue(e, rev, gs, parent, source)
    BY <1>1, <1>2 DEF Carries
  <1>4. UNCHANGED <<request, etag, acked, spine, written, opFloor>>
    BY DEF Publish
  <1>5. /\ request \in [Processes -> [1..MaxRequests -> Request]]
        /\ etag \in Nat /\ etag <= nop + 1
    BY DEF PInv, PromotionTypeOK, EtagBound
  <1> QED BY <1>2, <1>3, <1>4, <1>5, QueuedPInv

(* What currentSnapshot returns can be carried.                            *)
LEMMA SnapshotFacts ==
    ASSUME PInv, NEW e \in Envs, NEW n \in 0..MaxOps, NEW rev \in Revs,
           NEW gs \in SUBSET Gateways, Snapshot(e, n, rev, gs)
    PROVE  /\ \A g \in gs : EnvOf[g] = e
           /\ n # 0 => n \in OpIds /\ op[n].state # "none" /\ op[n].rev = rev /\ op[n].env = e
           /\ n = 0 => ReachedFleet(rev, e)
  <1>1. CASE n \in OpsIn(e) /\ rev = op[n].rev /\ gs = op[n].gateways
    <2>1. n \in OpIds /\ n # 0 /\ op[n].env = e /\ op[n].state # "none"
      BY <1>1, ReleaseAssumption DEF OpsIn, OpIds, PInv, OpsSound, ReleaseAssumption
    <2>2. \A g \in op[n].gateways : EnvOf[g] = e
      BY <2>1 DEF PInv, OpsSound, Carries
    <2> QED BY <1>1, <2>1, <2>2
  <1>2. CASE n = 0 /\ (\E i \in Live(e) : rev = rel[i].rev) /\ gs = bound[e]
    <2>1. \A g \in gs : EnvOf[g] = e
      BY <1>2 DEF PInv, IInv, RowInv, AppliedIsLive, Present
    <2>2. ReachedFleet(rev, e)
      BY <1>2 DEF ReachedFleet, Live, Reached, ReachedStates
    <2> QED BY <1>2, <2>1, <2>2
  <1> QED BY <1>1, <1>2 DEF Snapshot

(* A command reads: its request is sound.                                  *)
LEMMA BegunPInv ==
    ASSUME PInv, IInv', UNCHANGED releaseVars,
           NEW p \in Processes, NEW s \in 1..MaxRequests, NEW r \in Request,
           request' = [request EXCEPT ![p][s] = r],
           Carries(r.env, r.rev, r.gateways, r.parent, r.source),
           r.kind = "configure" => r.source = NoEnv /\ r.parent = 0,
           r.kind = "promote" /\ r.parent = 0 => ReachedFleet(r.rev, r.source),
           UNCHANGED <<op, nop, etag, acked, spine, written, opFloor>>
    PROVE  PInv'
  <1>1. request \in [Processes -> [1..MaxRequests -> Request]]
    BY DEF PInv, PromotionTypeOK
  <1>2. /\ request' \in [Processes -> [1..MaxRequests -> Request]] /\ request'[p][s] = r
        /\ \A q \in Processes, t \in 1..MaxRequests :
              q # p \/ t # s => request'[q][t] = request[q][t]
    BY <1>1
  <1>3. PromotionTypeOK'
    BY <1>2 DEF PInv, PromotionTypeOK, IInv
  <1>4. OpsSound' /\ DueKnown' /\ EtagBound'
    BY OpsKept DEF OpKept, PInv, DueKnown, EtagBound
  <1>5. \A x, v, g, pa, so : Carries(x, v, g, pa, so) => Carries(x, v, g, pa, so)'
    BY DEF Carries
  <1>6. RequestsSound'
    <2> SUFFICES ASSUME NEW q \in Processes, NEW t \in 1..MaxRequests,
                        request'[q][t].kind # "none"
                 PROVE  /\ Carries(request[q][t].env, request[q][t].rev, request[q][t].gateways,
                                   request[q][t].parent, request[q][t].source)'
                        /\ request'[q][t].kind = "configure" =>
                              request'[q][t].source = NoEnv /\ request'[q][t].parent = 0
      BY DEF RequestsSound
    <2>1. PICK o : o = request'[q][t]
      OBVIOUS
    <2>2. /\ Carries(o.env, o.rev, o.gateways, o.parent, o.source)
          /\ o.kind = "configure" => o.source = NoEnv /\ o.parent = 0
      BY <1>2, <2>1 DEF PInv, RequestsSound
    <2>3. Carries(o.env, o.rev, o.gateways, o.parent, o.source)'
      BY <1>5, <2>2
    <2> QED BY <2>1, <2>2, <2>3 DEF Carries
  <1>7. Arrived'
    <2>1. alive => \A i \in OpIds : ArrivedOp(op'[i])
      BY DEF PInv, Arrived
    <2>2. alive => \A q \in Processes, t \in 1..MaxRequests : ArrivedRequest(request'[q][t])
      BY <1>2 DEF PInv, Arrived, ArrivedRequest
    <2> QED BY <2>1, <2>2, ArrivedStep
  <1> QED BY <1>3, <1>4, <1>6, <1>7 DEF PInv

LEMMA BeginPInv ==
    ASSUME PInv, IInv', NEW p \in Processes, NEW s \in 1..MaxRequests, NEW e \in Envs,
           BeginConfigure(p, s, e) \/ BeginPromote(p, s, e)
    PROVE  PInv'
  <1>1. UNCHANGED releaseVars /\ UNCHANGED <<op, nop, etag, acked, spine, written, opFloor>>
    BY DEF BeginConfigure, BeginPromote
  <1>2. /\ 0 \in 0..MaxOps /\ etag \in 0..MaxOps /\ e \in Envs \cup {NoEnv}
        /\ NoEnv \in Envs \cup {NoEnv}
    BY PromotionAssumption DEF PromotionAssumption, PInv, PromotionTypeOK
  <1>3. CASE BeginConfigure(p, s, e)
    <2>1. PICK n \in 0..MaxOps, rev \in Revs, gs \in SUBSET Gateways :
            /\ Snapshot(e, n, rev, gs)
            /\ request' = [request EXCEPT ![p][s] =
                  [kind |-> "configure", env |-> e, rev |-> rev, gateways |-> gs,
                   parent |-> 0, source |-> NoEnv, etag |-> etag]]
      BY <1>3 DEF BeginConfigure
    <2>2. PICK r \in Request :
            r = [kind |-> "configure", env |-> e, rev |-> rev, gateways |-> gs,
                 parent |-> 0, source |-> NoEnv, etag |-> etag]
      BY <1>2 DEF Request
    <2>3. \A g \in gs : EnvOf[g] = e
      BY <2>1, SnapshotFacts
    <2>4. /\ Carries(r.env, r.rev, r.gateways, r.parent, r.source)
          /\ r.source = NoEnv /\ r.parent = 0 /\ r.kind = "configure"
      BY <2>2, <2>3 DEF Carries
    <2>5. request' = [request EXCEPT ![p][s] = r]
      BY <2>1, <2>2
    <2> QED BY <1>1, <2>4, <2>5, BegunPInv
  <1>4. CASE BeginPromote(p, s, e)
    <2>1. PICK n \in 0..MaxOps, rev \in Revs, from \in SUBSET Gateways, to \in SUBSET Gateways :
            /\ Snapshot(Predecessor[e], n, rev, from)
            /\ KeptGateways(e, to)
            /\ request' = [request EXCEPT ![p][s] =
                  [kind |-> "promote", env |-> e, rev |-> rev, gateways |-> to,
                   parent |-> n, source |-> Predecessor[e], etag |-> 0]]
      BY <1>4 DEF BeginPromote
    <2>2. PICK source \in Envs : source = Predecessor[e]
      BY <1>4, ReleaseAssumption DEF ReleaseAssumption, BeginPromote
    <2>3. PICK r \in Request :
            r = [kind |-> "promote", env |-> e, rev |-> rev, gateways |-> to,
                 parent |-> n, source |-> source, etag |-> 0]
      BY <1>2 DEF Request
    <2>4. \A g \in to : EnvOf[g] = e
      BY <2>1, SnapshotFacts DEF KeptGateways
    <2>5. /\ n # 0 => n \in OpIds /\ op[n].state # "none" /\ op[n].rev = rev /\ op[n].env = source
          /\ n = 0 => ReachedFleet(rev, source)
      BY <2>1, <2>2, SnapshotFacts
    <2>6. /\ Carries(r.env, r.rev, r.gateways, r.parent, r.source)
          /\ r.kind = "promote" /\ (r.parent = 0 => ReachedFleet(r.rev, r.source))
      BY <2>3, <2>4, <2>5 DEF Carries
    <2>7. request' = [request EXCEPT ![p][s] = r]
      BY <2>1, <2>2, <2>3
    <2> QED BY <1>1, <2>6, <2>7, BegunPInv
  <1> QED BY <1>3, <1>4

LEMMA FinishPInv ==
    ASSUME PInv, IInv', [Next]_releaseVars, NEW p \in Processes, NEW s \in 1..MaxRequests,
           FinishConfigure(p, s) \/ FinishPromote(p, s)
    PROVE  PInv'
  <1>1. PICK r \in Request : r = request[p][s]
    BY DEF PInv, PromotionTypeOK
  <1>2. /\ r.kind \in {"configure", "promote"} /\ UNCHANGED <<acked, spine, written, opFloor>>
        /\ request' = [request EXCEPT ![p][s] = NoRequest]
    BY <1>1 DEF FinishConfigure, FinishPromote
  <1>3. /\ Carries(r.env, r.rev, r.gateways, r.parent, r.source)
        /\ r.kind = "configure" => r.source = NoEnv /\ r.parent = 0
    BY <1>1, <1>2 DEF PInv, RequestsSound
  <1>4. /\ request' \in [Processes -> [1..MaxRequests -> Request]]
        /\ \A q \in Processes, t \in 1..MaxRequests :
              request'[q][t] = request[q][t] \/ request'[q][t].kind = "none"
    <2>1. request \in [Processes -> [1..MaxRequests -> Request]]
      BY DEF PInv, PromotionTypeOK
    <2>2. NoRequest \in Request /\ NoRequest.kind = "none"
      BY PromotionAssumption DEF PromotionAssumption, NoRequest, Request
    <2> QED BY <1>2, <2>1, <2>2
  <1>5. /\ r.env \in Envs /\ r.rev \in Revs /\ r.gateways \in SUBSET Gateways
        /\ r.parent \in 0..MaxOps /\ r.source \in Envs \cup {NoEnv}
        /\ etag \in Nat /\ nop \in Nat /\ etag <= nop
    BY <1>3 DEF Request, Carries, PInv, PromotionTypeOK, EtagBound
  <1>6. \A gs \in GatewayLists(r.env) :
          /\ Named(r.env, gs, r.gateways) \in SUBSET Gateways
          /\ \A g \in Named(r.env, gs, r.gateways) : EnvOf[g] = r.env
    BY <1>3, <1>5, PromotionAssumption DEF PromotionAssumption, GatewayLists, Named, Present, Carries
  <1>7. CASE FinishConfigure(p, s) /\ ~(UNCHANGED <<op, nop, etag>>)
    <2>1. PICK rev \in {r.rev} \cup Fresh, gs \in GatewayLists(r.env) :
            Enqueue(r.env, rev, Named(r.env, gs, r.gateways), 0, NoEnv)
      BY <1>1, <1>7 DEF FinishConfigure
    <2>2. etag' = etag + 1
      BY <1>7 DEF FinishConfigure
    <2>3. PICK list \in SUBSET Gateways : list = Named(r.env, gs, r.gateways)
      BY <1>6
    <2>4. PICK parent \in 0..MaxOps, source \in Envs \cup {NoEnv} : parent = 0 /\ source = NoEnv
      BY PromotionAssumption DEF PromotionAssumption
    <2>5. rev \in Revs
      BY <1>5 DEF Fresh
    <2>6. /\ Carries(r.env, rev, list, parent, source)
          /\ Enqueue(r.env, rev, list, parent, source)
      BY <1>5, <1>6, <2>1, <2>3, <2>4, <2>5 DEF Carries
    <2>7. etag' \in Nat /\ etag' <= nop + 1
      BY <1>5, <2>2
    <2> QED BY <1>2, <1>4, <1>5, <2>4, <2>5, <2>6, <2>7, QueuedPInv
  <1>8. CASE UNCHANGED <<op, nop, etag>>
    <2>1. PromotionTypeOK' /\ EtagBound'
      BY <1>2, <1>4, <1>8 DEF PInv, PromotionTypeOK, IInv, EtagBound
    <2>2. OpsSound' /\ RequestsSound' /\ Arrived'
      BY <1>4, <1>8, OpsKept, RequestsKept, ArrivedKept DEF OpKept
    <2>3. DueKnown'
      BY <1>2, <1>8 DEF PInv, DueKnown
    <2> QED BY <2>1, <2>2, <2>3 DEF PInv
  <1>9. CASE FinishPromote(p, s) /\ ~(UNCHANGED <<op, nop, etag>>)
    <2>1. PICK gs \in GatewayLists(r.env) :
            Enqueue(r.env, r.rev, Named(r.env, gs, r.gateways), r.parent, r.source)
      BY <1>1, <1>9 DEF FinishPromote, SourceRead
    <2>2. PICK list \in SUBSET Gateways : list = Named(r.env, gs, r.gateways)
      BY <1>6
    <2>3. /\ Carries(r.env, r.rev, list, r.parent, r.source)
          /\ Enqueue(r.env, r.rev, list, r.parent, r.source)
      BY <1>3, <1>6, <2>1, <2>2 DEF Carries
    <2>4. alive' /\ r.source # NoEnv /\ r.parent = 0 => ReachedFleet(r.rev, r.source)
      <3>1. alive' => alive
        BY ReachedKept
      <3>2. r.kind = "promote"
        BY <1>1, <1>9 DEF FinishPromote
      <3> QED BY <1>1, <3>1, <3>2 DEF PInv, Arrived, ArrivedRequest
    <2>5. etag' \in Nat /\ etag' <= nop + 1
      BY <1>5, <1>9 DEF FinishPromote
    <2> QED BY <1>2, <1>4, <1>5, <2>3, <2>4, <2>5, QueuedPInv
  <1> QED BY <1>7, <1>8, <1>9

-----------------------------------------------------------------------------
(* The row of release that the spine inserts has reached the fleet.        *)
LEMMA GoLiveReaches ==
    ASSUME PInv, NEW e \in Envs, NEW rev \in Revs, NEW chosen, GoLive(e, rev, chosen)
    PROVE  ReachedFleet(rev, e)'
  <1>1. nrel \in Nat /\ nrel + 1 \in RelIds
    BY ReleaseAssumption DEF ReleaseAssumption, GoLive, PInv, IInv, TypeOK, RelIds
  <1>2. rel'[nrel + 1] = [env |-> e, rev |-> rev, state |-> "converged", exempt |-> TRUE]
    BY <1>1 DEF GoLive, SpineLive, Move
  <1> QED BY <1>1, <1>2 DEF ReachedFleet, Reached, In, ReachedStates

LEMMA RunOperationPInv ==
    ASSUME PInv, IInv', [Next]_releaseVars, NEW p \in Processes, RunOperation(p)
    PROVE  PInv'
  <1>1. UNCHANGED <<nop, request, etag, opFloor>>
    BY DEF RunOperation
  <1>2. PICK i \in spine[p].due :
          /\ OpWaits(i) \/ OpApplies(i) \/ OpFails(i)
          /\ spine' = [spine EXCEPT ![p].due = @ \ {i}]
    BY DEF RunOperation
  <1>3. /\ i \in OpIds /\ op[i].state # "none" /\ op[i] \in Op
        /\ spine \in [Processes -> SpinePass] /\ spine[p] \in SpinePass
        /\ op \in [OpIds -> Op]
    BY DEF PInv, DueKnown, PromotionTypeOK, SpinePass
  <1>4. /\ spine' \in [Processes -> SpinePass]
        /\ \A q \in Processes : spine'[q].due \subseteq spine[q].due
    BY <1>2, <1>3 DEF SpinePass
  <1>5. /\ op' \in [OpIds -> Op]
        /\ \A k \in OpIds : OpKept(k)
        /\ \A k \in OpIds : k # i => op'[k] = op[k]
    <2>1. CASE OpWaits(i)
      BY <1>3, <2>1 DEF OpWaits, OpKept
    <2>2. CASE OpApplies(i)
      <3>1. op' = [op EXCEPT ![i].state = "waiting-for-gateways"]
        BY <2>2 DEF OpApplies
      <3> QED BY <1>3, <3>1 DEF Op, OpKept, AppliedStates
    <2>3. CASE OpFails(i)
      <3>1. PICK a \in 0..MaxAttempts : a = IF op[i].attempts < MaxAttempts
                                            THEN op[i].attempts + 1 ELSE op[i].attempts
        BY <1>3, PromotionAssumption DEF Op, PromotionAssumption
      <3>2. PICK st \in PendingStates : st = FailedState(i)
        BY DEF FailedState, PendingStates
      <3>3. op' = [op EXCEPT ![i].attempts = a, ![i].state = st]
        BY <2>3, <3>1, <3>2 DEF OpFails
      <3>4. op'[i] = [op[i] EXCEPT !.attempts = a, !.state = st] /\ DOMAIN op' = OpIds
            /\ \A k \in OpIds : k # i => op'[k] = op[k]
        BY <1>3, <3>3
      <3>5. op'[i] \in Op /\ OpKept(i)
        <4>1. /\ op'[i].env = op[i].env /\ op'[i].rev = op[i].rev
              /\ op'[i].gateways = op[i].gateways /\ op'[i].parent = op[i].parent
              /\ op'[i].source = op[i].source /\ op'[i].state = st
          BY <1>3, <3>4 DEF Op
        <4>2. op'[i] \in Op
          BY <1>3, <3>4 DEF Op
        <4>3. st # "none"
          BY DEF PendingStates
        <4> QED BY <1>3, <4>1, <4>2, <4>3 DEF OpKept
      <3>6. op' \in [OpIds -> Op]
        <4>1. op' = [k \in OpIds |-> op'[k]]
          BY <1>3, <3>3
        <4>2. \A k \in OpIds : op'[k] \in Op
          BY <1>3, <3>4, <3>5
        <4> QED BY <4>1, <4>2
      <3> QED BY <3>4, <3>5, <3>6 DEF OpKept
    <2> QED BY <1>2, <2>1, <2>2, <2>3
  <1>6. acked' \in [Envs -> BOOLEAN]
    <2>1. CASE OpApplies(i)
      <3>1. PICK same \in BOOLEAN : acked' = [Behind EXCEPT ![op[i].env] = @ /\ same]
        BY <2>1 DEF OpApplies
      <3> QED BY <3>1, BehindType
    <2>2. CASE OpWaits(i) \/ OpFails(i)
      BY <2>2 DEF OpWaits, OpFails, PInv, PromotionTypeOK
    <2> QED BY <1>2, <2>1, <2>2
  <1>7. written' \in [Envs -> 0..MaxOps]
    BY <1>2, <1>3, PromotionAssumption
       DEF OpWaits, OpFails, OpApplies, PInv, PromotionTypeOK, OpIds, PromotionAssumption
  <1>8. PromotionTypeOK'
    BY <1>1, <1>4, <1>5, <1>6, <1>7 DEF PInv, PromotionTypeOK, IInv
  <1>9. OpsSound' /\ RequestsSound'
    BY <1>1, <1>5, OpsKept, RequestsKept
  <1>10. DueKnown' /\ EtagBound'
    BY <1>1, <1>3, <1>4, <1>5 DEF PInv, DueKnown, OpKept, EtagBound, SpinePass
  <1>11. Arrived'
    <2>1. alive => \A q \in Processes, s \in 1..MaxRequests : ArrivedRequest(request'[q][s])
      BY <1>1 DEF PInv, Arrived
    <2>2. ASSUME NEW k \in OpIds, alive
          PROVE  ArrivedOp(op'[k]) \/ ArrivedOp(op[k])'
      <3>1. CASE op'[k] = op[k]
        BY <2>2, <3>1 DEF PInv, Arrived
      <3>2. CASE k = i /\ OpFails(i)
        <4>1. op'[k].state \notin AppliedStates /\ OpKept(k) /\ ArrivedOp(op[k])
          <5>1. FailedState(i) \in PendingStates
            BY DEF FailedState, PendingStates
          <5>2. op'[i].state = FailedState(i)
            BY <1>3, <3>2 DEF OpFails
          <5> QED BY <1>5, <2>2, <3>2, <5>1, <5>2
                 DEF PInv, Arrived, PendingStates, AppliedStates
        <4> QED BY <4>1 DEF ArrivedOp, OpKept
      <3>3. CASE k = i /\ OpApplies(i)
        <4>1. PICK e \in Envs, rev \in Revs : e = op[i].env /\ rev = op[i].rev
          BY <1>3 DEF PInv, OpsSound, Carries
        <4>2. GoLive(e, rev, Chosen(i)) /\ ~SourceMissing(i)
          BY <3>3, <4>1 DEF OpApplies, Waits
        <4>3. ReachedFleet(rev, e)'
          BY <4>2, GoLiveReaches
        <4>4. op[i].source # NoEnv => ReachedFleet(rev, op[i].source)
          <5>1. CASE op[i].parent = 0
            BY <1>3, <2>2, <4>1, <5>1 DEF PInv, Arrived, ArrivedOp
          <5>2. CASE op[i].parent # 0
            <6>1. PICK n \in OpIds : /\ n = op[i].parent /\ op[n].state = "complete"
                                     /\ op[n].rev = rev /\ op[n].env = op[i].source
              BY <1>3, <4>1, <4>2, <5>2 DEF PInv, OpsSound, Carries, SourceMissing
            <6>2. ReachedFleet(op[n].rev, op[n].env)
              BY <2>2, <6>1 DEF PInv, Arrived, ArrivedOp, AppliedStates
            <6> QED BY <6>1, <6>2
          <5> QED BY <5>1, <5>2
        <4>5. PICK src : src = op[i].source /\ src = op'[i].source
          BY <1>3, <1>5 DEF OpKept
        <4>6. alive' => (src # NoEnv => ReachedFleet(rev, src)')
          <5>1. alive' /\ ReachedFleet(rev, src) => ReachedFleet(rev, src)'
            BY ReachedKept
          <5> QED BY <4>4, <4>5, <5>1
        <4>7. alive' = alive
          BY DEF RunOperation
        <4>8. op'[i].rev = rev /\ op'[i].env = e
          BY <1>3, <1>5, <4>1 DEF OpKept
        <4> QED BY <2>2, <3>3, <4>3, <4>5, <4>6, <4>7, <4>8 DEF ArrivedOp, ReachedFleet
      <3>4. OpWaits(i) => op' = op
        BY DEF OpWaits
      <3> QED BY <1>2, <1>5, <3>1, <3>2, <3>3, <3>4
    <2> QED BY <2>1, <2>2, ArrivedStep
  <1> QED BY <1>8, <1>9, <1>10, <1>11 DEF PInv

(* Completing changes a state and nothing else.                            *)
LEMMA SettlePInv ==
    ASSUME PInv, IInv', [Next]_releaseVars, NEW p \in Processes, Settle(p)
    PROVE  PInv'
  <1>1. /\ UNCHANGED <<nop, request, etag, acked, written, opFloor>>
        /\ spine' = [spine EXCEPT ![p].step = "settled"]
        /\ op' = [i \in OpIds |->
                    IF op[i].state = "waiting-for-gateways" /\ acked[op[i].env]
                    THEN [op[i] EXCEPT !.state = "complete"] ELSE op[i]]
    BY DEF Settle
  <1>2. op \in [OpIds -> Op] /\ \A i \in OpIds : op[i] \in Op
    BY DEF PInv, PromotionTypeOK
  <1>3. /\ op' \in [OpIds -> Op]
        /\ \A i \in OpIds :
              OpKept(i) /\ (op'[i].state \in AppliedStates <=> op[i].state \in AppliedStates)
    BY <1>1, <1>2 DEF Op, OpKept, AppliedStates
  <1>4. /\ spine' \in [Processes -> SpinePass]
        /\ \A q \in Processes : spine'[q].due = spine[q].due /\ spine[q].due \subseteq OpIds
    BY <1>1 DEF PInv, PromotionTypeOK, SpinePass
  <1>5. PromotionTypeOK'
    BY <1>1, <1>3, <1>4 DEF PInv, PromotionTypeOK, IInv
  <1>6. OpsSound' /\ RequestsSound'
    BY <1>1, <1>3, OpsKept, RequestsKept
  <1>7. DueKnown' /\ EtagBound'
    BY <1>1, <1>3, <1>4 DEF PInv, DueKnown, OpKept, EtagBound
  <1>8. Arrived'
    <2>1. alive => \A q \in Processes, s \in 1..MaxRequests : ArrivedRequest(request'[q][s])
      BY <1>1 DEF PInv, Arrived
    <2>2. alive => \A i \in OpIds : ArrivedOp(op'[i])
      BY <1>3 DEF PInv, Arrived, ArrivedOp, OpKept
    <2> QED BY <2>1, <2>2, ArrivedStep
  <1> QED BY <1>5, <1>6, <1>7, <1>8 DEF PInv

LEMMA NextPInv == PInv /\ [PromotionNext]_promotionVars => PInv' /\ [Next]_releaseVars
  <1> SUFFICES ASSUME PInv, [PromotionNext]_promotionVars
               PROVE  PInv' /\ [Next]_releaseVars
    OBVIOUS
  <1>1. [Next]_releaseVars
    <2>1. UNCHANGED promotionVars => UNCHANGED releaseVars
      BY DEF promotionVars
    <2> QED BY <2>1, StepIsReleaseStep
  <1>2. IInv'
    BY <1>1, NextIInv DEF PInv
  <1>3. CASE UNCHANGED promotionVars
    <2>1. UNCHANGED <<op, nop, request, etag, acked, spine, written, opFloor>>
      BY <1>3 DEF promotionVars, spineVars
    <2>2. OpsSound' /\ RequestsSound' /\ Arrived'
      BY <1>1, <2>1, OpsKept, RequestsKept, ArrivedKept DEF OpKept
    <2>3. PromotionTypeOK'
      BY <1>2, <2>1 DEF PInv, PromotionTypeOK, IInv
    <2>4. DueKnown' /\ EtagBound'
      BY <2>1 DEF PInv, DueKnown, EtagBound
    <2>5. PInv'
      BY <1>2, <2>2, <2>3, <2>4 DEF PInv
    <2> QED BY <1>1, <2>5
  <1>4. CASE PromotionNext
    <2>1. PICK p \in Processes :
            \/ Commands(p) \/ RunSpine(p) \/ RunJobs(p) \/ HandleRelease(p) \/ Die(p)
            \/ \E e \in Envs : FleetReports(p, e) \/ DocumentChanges(p, e)
      BY <1>4 DEF PromotionNext
    <2>2. CASE Commands(p)
      BY <1>1, <1>2, <2>2, PublishPInv, BeginPInv, FinishPInv DEF Commands
    <2>3. CASE RunSpine(p)
      BY <1>1, <1>2, <2>3, ReportPInv, RunOperationPInv, SettlePInv DEF RunSpine
    <2> QED BY <1>1, <1>2, <2>1, <2>2, <2>3, ReleaseSidePInv, ReportPInv
  <1> QED BY <1>1, <1>3, <1>4

LEMMA PromotionInvariance == PromotionSpec => []PInv
  BY InitPInv, NextPInv, PTL DEF PromotionSpec

-----------------------------------------------------------------------------
(* Every state of the composition is well typed.                           *)
THEOREM PromotionTypeCorrect == PromotionSpec => []PromotionTypeOK
  BY PromotionInvariance, PTL DEF PInv

(* The spine and the reconcile jobs together implement Release: both       *)
(* writers of the release table are covered by what is proved of it.       *)
THEOREM ReleaseImplemented == PromotionSpec => ImplementsRelease
  <1>1. PromotionInit => Init
    BY DEF PromotionInit
  <1> QED BY <1>1, NextPInv, PromotionInvariance, PTL
         DEF PromotionSpec, ImplementsRelease, Spec

(* promoteResource queues what it read of its source in one go, so a       *)
(* promotion's revision is its source operation's.                         *)
THEOREM PromotionFaithful == PromotionSpec => []PromotesItsSource
  <1>1. PInv => PromotesItsSource
    BY DEF PInv, OpsSound, Carries, PromotesItsSource
  <1> QED BY <1>1, PromotionInvariance, PTL

(* runOperations applies a promotion only when what it was captured from   *)
(* has reached the previous stage's fleet.                                 *)
THEOREM PromotionGated == PromotionSpec => []SpineKeepsGate
  <1>1. PInv => SpineKeepsGate
    BY DEF PInv, Arrived, ArrivedOp, SpineKeepsGate
  <1> QED BY <1>1, PromotionInvariance, PTL

(* A promotion carries its source's revision and arrives after it.         *)
THEOREM PromotionsFollowTheirs == PromotionSpec => []PromotionsFollow
  BY PromotionFaithful, PromotionGated, PTL DEF PromotionsFollow

(* With both writers at work, the newest release that reached the fleet is *)
(* the one that is live, on exactly the gateways the API is bound to.      *)
THEOREM PromotionKeepsOrder == PromotionSpec => [](LiveIsNewest /\ AppliedIsLive)
  BY ReleaseImplemented, NewestIsLive, ProjectionTrue, PTL DEF ImplementsRelease

-----------------------------------------------------------------------------
(* While one process runs the spine, what it has selected and not yet run  *)
(* is still pending: nobody else runs or settles it.                       *)
DuePending == \A p \in Processes : \A i \in spine[p].due : op[i].state \in PendingStates

(* Everything queued for an environment before the operation it last wrote *)
(* is complete, and that operation is in the table.                        *)
WrittenLast ==
    \A e \in Envs : /\ written[e] <= nop
                    /\ \A i \in OpIds : op[i].env = e /\ i < written[e] => op[i].state = "complete"
OrderInv == DuePending /\ WrittenLast
OneProcess == \A p, q \in Processes : p = q
NeverBack == \A e \in Envs : written'[e] >= written[e]

LEMMA OrderKept ==
    ASSUME PInv, OrderInv, UNCHANGED <<op, nop, written>>,
           \A p \in Processes : spine'[p].due \subseteq spine[p].due
    PROVE  OrderInv' /\ NeverBack
  BY DEF OrderInv, DuePending, WrittenLast, NeverBack, PInv, PromotionTypeOK

LEMMA OrderQueued ==
    ASSUME PInv, OrderInv, UNCHANGED <<spine, written>>, NEW e, NEW rev, NEW gs, NEW parent, NEW source,
           Enqueue(e, rev, gs, parent, source)
    PROVE  OrderInv' /\ NeverBack
  <1>1. /\ op \in [OpIds -> Op] /\ nop \in Nat /\ MaxOps \in Nat /\ nop < MaxOps /\ nop' = nop + 1
        /\ nop + 1 \in OpIds /\ written \in [Envs -> 0..MaxOps]
        /\ \A p \in Processes : spine[p].due \subseteq OpIds
    BY PromotionAssumption DEF PInv, PromotionTypeOK, Enqueue, PromotionAssumption, OpIds, SpinePass
  <1>2. \A i \in OpIds : i # nop + 1 => op'[i] = op[i]
    BY <1>1 DEF Enqueue
  <1>3. op'[nop + 1].state = "queued"
    BY <1>1 DEF Enqueue
  <1>4. DuePending'
    BY <1>1, <1>2, <1>3 DEF OrderInv, DuePending, PendingStates
  <1>5. \A x \in Envs : written[x] \in Int /\ written[x] <= nop
    BY <1>1 DEF OrderInv, WrittenLast
  <1>6. WrittenLast'
    <2> SUFFICES ASSUME NEW x \in Envs
                 PROVE  /\ written[x] <= nop'
                        /\ \A i \in OpIds : op'[i].env = x /\ i < written[x] => op'[i].state = "complete"
      BY DEF WrittenLast
    <2>1. written[x] <= nop'
      BY <1>1, <1>5
    <2>2. ASSUME NEW i \in OpIds, op'[i].env = x, i < written[x] PROVE op'[i].state = "complete"
      <3>1. i # nop + 1
        BY <1>1, <1>5, <2>2 DEF OpIds
      <3> QED BY <1>2, <2>2, <3>1 DEF OrderInv, WrittenLast
    <2> QED BY <2>1, <2>2
  <1>7. NeverBack
    BY <1>1 DEF NeverBack
  <1> QED BY <1>4, <1>6, <1>7 DEF OrderInv

(* An operation is run only when all before it here are complete; one that *)
(* is complete is not run again.                                           *)
LEMMA OrderRun ==
    ASSUME PInv, OrderInv, OneProcess, NEW p \in Processes, RunOperation(p)
    PROVE  OrderInv' /\ NeverBack
  <1>1. PICK i \in spine[p].due :
          /\ OpWaits(i) \/ OpApplies(i) \/ OpFails(i)
          /\ spine' = [spine EXCEPT ![p].due = @ \ {i}] /\ UNCHANGED nop
    BY DEF RunOperation
  <1>2. /\ i \in OpIds /\ op \in [OpIds -> Op] /\ spine \in [Processes -> SpinePass]
        /\ nop \in Nat /\ written \in [Envs -> 0..MaxOps] /\ op[i].state \in PendingStates
        /\ \A q \in Processes : q = p
    BY PromotionAssumption
       DEF PInv, PromotionTypeOK, PromotionAssumption, SpinePass, OrderInv, DuePending, OneProcess
  <1>3. spine'[p].due = spine[p].due \ {i} /\ spine[p].due \subseteq OpIds
    BY <1>1, <1>2 DEF SpinePass
  <1>4. op[i].env \in Envs /\ i <= nop
    <2>1. op[i].state # "none"
      BY <1>2 DEF PendingStates
    <2> QED BY <1>2, <2>1 DEF PInv, OpsSound, Carries, OpIds
  <1>5. /\ \A k \in OpIds : k # i => op'[k] = op[k]
        /\ op'[i].env = op[i].env
    <2>1. CASE OpWaits(i)
      BY <2>1 DEF OpWaits
    <2>2. CASE OpApplies(i)
      BY <1>2, <2>2 DEF OpApplies, Op
    <2>3. CASE OpFails(i)
      BY <1>2, <2>3 DEF OpFails, Op
    <2> QED BY <1>1, <2>1, <2>2, <2>3
  <1>6. DuePending'
    BY <1>2, <1>3, <1>5 DEF OrderInv, DuePending
  <1>7. CASE OpApplies(i)
    <2>1. written' = [written EXCEPT ![op[i].env] = i]
      BY <1>7 DEF OpApplies
    <2>2. \A k \in OpIds : op[k].env = op[i].env /\ k < i => op[k].state = "complete"
      BY <1>7 DEF OpApplies, Waits, EarlierUnsettled, OpsIn
    <2>3. written[op[i].env] <= i
      <3>1. written[op[i].env] \in 0..MaxOps
        BY <1>2, <1>4
      <3>2. i < written[op[i].env] => op[i].state = "complete"
        BY <1>2, <1>4 DEF OrderInv, WrittenLast
      <3> QED BY <1>2, <3>1, <3>2 DEF PendingStates, OpIds
    <2>4. \A e \in Envs : written'[e] = IF e = op[i].env THEN i ELSE written[e]
      BY <1>2, <2>1
    <2>5. NeverBack
      <3> SUFFICES ASSUME NEW e \in Envs PROVE written'[e] >= written[e]
        BY DEF NeverBack
      <3>1. written[e] \in Int /\ i \in Int
        BY <1>2 DEF OpIds
      <3> QED BY <2>3, <2>4, <3>1
    <2>6. WrittenLast'
      <3> SUFFICES ASSUME NEW e \in Envs
                   PROVE  /\ written'[e] <= nop'
                          /\ \A k \in OpIds : op'[k].env = e /\ k < written'[e] => op'[k].state = "complete"
        BY DEF WrittenLast
      <3>1. written'[e] <= nop'
        BY <1>1, <1>4, <2>4 DEF OrderInv, WrittenLast
      <3>2. ASSUME NEW k \in OpIds, op'[k].env = e, k < written'[e] PROVE op'[k].state = "complete"
        <4>1. CASE e = op[i].env
          <5>1. k < i /\ k # i
            BY <1>2, <2>4, <3>2, <4>1 DEF OpIds
          <5> QED BY <1>5, <2>2, <3>2, <4>1, <5>1
        <4>2. CASE e # op[i].env
          <5>1. k # i
            BY <1>5, <3>2, <4>2
          <5> QED BY <1>5, <2>4, <3>2, <4>2, <5>1 DEF OrderInv, WrittenLast
        <4> QED BY <4>1, <4>2
      <3> QED BY <3>1, <3>2
    <2> QED BY <1>6, <2>5, <2>6 DEF OrderInv
  <1>8. CASE OpWaits(i) \/ OpFails(i)
    <2>1. UNCHANGED written
      BY <1>8 DEF OpWaits, OpFails
    <2>2. NeverBack
      BY <1>2, <2>1 DEF NeverBack
    <2>3. WrittenLast'
      <3> SUFFICES ASSUME NEW e \in Envs
                   PROVE  /\ written[e] <= nop
                          /\ \A k \in OpIds : op'[k].env = e /\ k < written[e] => op'[k].state = "complete"
        BY <1>1, <2>1 DEF WrittenLast
      <3>1. ASSUME NEW k \in OpIds, op'[k].env = e, k < written[e] PROVE op'[k].state = "complete"
        <4>1. op[k].state = "complete"
          BY <1>5, <3>1 DEF OrderInv, WrittenLast
        <4>2. k # i
          BY <1>2, <4>1 DEF PendingStates
        <4> QED BY <1>5, <4>1, <4>2
      <3> QED BY <3>1 DEF OrderInv, WrittenLast
    <2> QED BY <1>6, <2>2, <2>3 DEF OrderInv
  <1> QED BY <1>1, <1>7, <1>8

LEMMA OrderStep ==
    ASSUME PInv, OrderInv, OneProcess, [PromotionNext]_promotionVars
    PROVE  OrderInv' /\ NeverBack
  <1>1. CASE UNCHANGED promotionVars
    <2>1. UNCHANGED <<op, nop, written, spine>>
      BY <1>1 DEF promotionVars, spineVars
    <2> QED BY <2>1, OrderKept
  <1>2. CASE PromotionNext
    <2>1. PICK p \in Processes :
            \/ Commands(p) \/ RunSpine(p) \/ RunJobs(p) \/ HandleRelease(p) \/ Die(p)
            \/ \E e \in Envs : FleetReports(p, e) \/ DocumentChanges(p, e)
      BY <1>2 DEF PromotionNext
    <2>2. /\ spine \in [Processes -> SpinePass] /\ op \in [OpIds -> Op]
          /\ \A q \in Processes : q = p /\ spine[q].due \subseteq OpIds
      BY DEF PInv, PromotionTypeOK, OneProcess, SpinePass
    <2>3. CASE Commands(p)
      <3>1. UNCHANGED <<spine, written>>
        BY <2>3 DEF Commands, Publish, BeginConfigure, BeginPromote, FinishConfigure, FinishPromote
      <3>2. \/ UNCHANGED <<op, nop>>
            \/ \E e, rev, gs, parent, source : Enqueue(e, rev, gs, parent, source)
        <4>1. CASE Publish(p)
          BY <4>1 DEF Publish
        <4>2. CASE \E s \in 1..MaxRequests, e \in Envs : BeginConfigure(p, s, e) \/ BeginPromote(p, s, e)
          BY <4>2 DEF BeginConfigure, BeginPromote
        <4>3. CASE \E s \in 1..MaxRequests : FinishConfigure(p, s)
          BY <4>3 DEF FinishConfigure
        <4>4. CASE \E s \in 1..MaxRequests : FinishPromote(p, s)
          BY <4>4 DEF FinishPromote
        <4> QED BY <2>3, <4>1, <4>2, <4>3, <4>4 DEF Commands
      <3>3. CASE UNCHANGED <<op, nop>>
        BY <3>1, <3>3, OrderKept
      <3>4. CASE \E e, rev, gs, parent, source : Enqueue(e, rev, gs, parent, source)
        BY <3>1, <3>4, OrderQueued
      <3> QED BY <3>2, <3>3, <3>4
    <2>4. CASE SelectOps(p)
      <3>1. UNCHANGED <<op, nop, written>>
        BY <2>4 DEF SelectOps
      <3>2. \A i \in spine'[p].due : op[i].state \in PendingStates
        BY <2>2, <2>4 DEF SelectOps
      <3>3. DuePending'
        BY <2>2, <3>1, <3>2 DEF DuePending
      <3> QED BY <3>1, <3>3 DEF OrderInv, WrittenLast, NeverBack, PInv, PromotionTypeOK
    <2>5. CASE Settle(p)
      <3>1. /\ UNCHANGED <<nop, written>> /\ spine[p].due = {}
            /\ spine' = [spine EXCEPT ![p].step = "settled"]
            /\ op' = [i \in OpIds |->
                        IF op[i].state = "waiting-for-gateways" /\ acked[op[i].env]
                        THEN [op[i] EXCEPT !.state = "complete"] ELSE op[i]]
        BY <2>5 DEF Settle
      <3>2. DuePending'
        BY <2>2, <3>1 DEF DuePending, SpinePass
      <3>3. \A i \in OpIds : op'[i].env = op[i].env /\ (op[i].state = "complete" => op'[i].state = "complete")
        BY <2>2, <3>1 DEF Op
      <3> QED BY <3>1, <3>2, <3>3 DEF OrderInv, WrittenLast, NeverBack, PInv, PromotionTypeOK
    <2>6. CASE RunJobs(p) \/ Die(p)
      <3>1. UNCHANGED <<op, nop, written>> /\ spine' = [spine EXCEPT ![p] = NotStarted]
        BY <2>6 DEF RunJobs, Die
      <3>2. \A q \in Processes : spine'[q].due \subseteq spine[q].due
        BY <2>2, <3>1 DEF NotStarted
      <3> QED BY <3>1, <3>2, OrderKept
    <2>7. CASE HandleRelease(p) \/ \E e \in Envs : FleetReports(p, e) \/ DocumentChanges(p, e)
      <3>1. UNCHANGED <<op, nop, written, spine>>
        BY <2>7 DEF HandleRelease, FleetReports, DocumentChanges
      <3> QED BY <3>1, OrderKept
    <2> QED BY <2>1, <2>3, <2>4, <2>5, <2>6, <2>7, OrderRun DEF RunSpine
  <1> QED BY <1>1, <1>2

(* With one process running the spine, as in production (runOperations,    *)
(* called from one timer), an environment's snapshot is never replaced by  *)
(* that of an older operation, whatever commands were in flight, whatever  *)
(* failed and was retried, and wherever a pass was cut short.  Two         *)
(* processes could: a row one of them has selected is run although the     *)
(* other has completed it meanwhile.                                       *)
THEOREM SnapshotsOrdered == OneProcess => (PromotionSpec => SnapshotsInOrder)
  <1> SUFFICES ASSUME OneProcess PROVE PromotionSpec => SnapshotsInOrder
    OBVIOUS
  <1>1. PromotionInit => OrderInv
    <2> SUFFICES ASSUME PromotionInit PROVE OrderInv
      OBVIOUS
    <2>1. nop = 0 /\ \A e \in Envs : written[e] = 0
      BY DEF PromotionInit
    <2>2. \A p \in Processes : spine[p].due = {}
      BY DEF PromotionInit, NotStarted
    <2>3. WrittenLast
      BY <2>1 DEF WrittenLast, OpIds
    <2> QED BY <2>2, <2>3 DEF OrderInv, DuePending
  <1>2. PInv /\ OrderInv /\ [PromotionNext]_promotionVars
          => /\ OrderInv'
             /\ [\A e \in Envs : written'[e] >= written[e]]_promotionVars
    BY OrderStep DEF NeverBack
  <1> QED BY <1>1, <1>2, PromotionInvariance, PTL DEF PromotionSpec, SnapshotsInOrder
=============================================================================
