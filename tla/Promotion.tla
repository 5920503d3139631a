----------------------------- MODULE Promotion ------------------------------
(***************************************************************************)
(* The operation spine of one API (control-plane/src/operations.ts): the   *)
(* publish, configure and promote commands, the queue they make, and the   *)
(* pass of runOperations that writes their snapshots and completes them    *)
(* when the fleet has acknowledged the configuration.  It composes with    *)
(* Release, whose rows and projection the spine shares with the reconcile  *)
(* jobs, and implements it: an operation that is applied is a SpineWrites. *)
(*                                                                         *)
(* configure and promote read the current snapshots, await (settings and   *)
(* definitions are fetched), and queue what they read: a command between   *)
(* its two halves is a record in request.                                  *)
(*                                                                         *)
(* A snapshot is its revision and its gateways; routes, bindings, policy   *)
(* and the rest travel with it.  The fleet is what fleetApplied says of    *)
(* it, and falls behind whenever the document changes.                     *)
(***************************************************************************)
EXTENDS Release

CONSTANTS
    MaxOps,      \* operations ever queued (bound)
    MaxRequests, \* commands a process has between their halves (bound)
    Listable,    \* gateways a caller may name (bound)
    MaxAttempts  \* failures after which an operation is shown as blocked

ASSUME PromotionAssumption ==
    /\ MaxOps \in Nat
    /\ MaxRequests \in Nat
    /\ Listable \subseteq Gateways
    /\ MaxAttempts \in Nat \ {0}

VARIABLES
    op,          \* the operation table
    nop,
    request,     \* commands between reading and queueing
    etag,        \* resource.updated_at: configures accepted so far
    acked,       \* fleetApplied(e)
    spine,       \* where each process is in runOperations
    written,     \* history: operation whose snapshot each environment has
    opFloor      \* history: newest operation when last withdrawn from

spineVars == <<op, nop, request, etag, acked, spine, written, opFloor>>
promotionVars == <<releaseVars, spineVars>>

-----------------------------------------------------------------------------
OpIds == 1..MaxOps
PendingUnblocked == {"queued", "retrying"} \* mutant
PendingStates == {"queued", "retrying", "blocked"}
AppliedStates == {"waiting-for-gateways", "complete"}

(* A request's gateways = {}: not said, and nothing published here before. *)
Op == [env : Envs \cup {NoEnv}, rev : Revs \cup {NoRev},
       gateways : SUBSET Gateways, parent : 0..MaxOps, source : Envs \cup {NoEnv},
       state : PendingStates \cup AppliedStates \cup {"none"}, attempts : 0..MaxAttempts]
NoOp == [env |-> NoEnv, rev |-> NoRev, gateways |-> {}, parent |-> 0,
         source |-> NoEnv, state |-> "none", attempts |-> 0]

Request == [kind : {"none", "configure", "promote"}, env : Envs \cup {NoEnv},
            rev : Revs \cup {NoRev}, gateways : SUBSET Gateways,
            parent : 0..MaxOps, source : Envs \cup {NoEnv}, etag : 0..MaxOps]
NoRequest == [kind |-> "none", env |-> NoEnv, rev |-> NoRev, gateways |-> {},
              parent |-> 0, source |-> NoEnv, etag |-> 0]

SpinePass == [step : {"select", "run", "settled"}, due : SUBSET OpIds]
NotStarted == [step |-> "select", due |-> {}]

PromotionTypeOK ==
    /\ TypeOK
    /\ op \in [OpIds -> Op]
    /\ nop \in 0..MaxOps
    /\ request \in [Processes -> [1..MaxRequests -> Request]]
    /\ etag \in 0..MaxOps
    /\ acked \in [Envs -> BOOLEAN]
    /\ spine \in [Processes -> SpinePass]
    /\ written \in [Envs -> 0..MaxOps]
    /\ opFloor \in [Envs -> 0..MaxOps]

PromotionInit ==
    /\ Init
    /\ op = [i \in OpIds |-> NoOp]
    /\ nop = 0
    /\ request = [p \in Processes |-> [s \in 1..MaxRequests |-> NoRequest]]
    /\ etag = 0
    /\ acked = [e \in Envs |-> FALSE]
    /\ spine = [p \in Processes |-> NotStarted]
    /\ written = [e \in Envs |-> 0]
    /\ opFloor = [e \in Envs |-> 0]

-----------------------------------------------------------------------------
OpsIn(e) == {i \in OpIds : op[i].env = e}

(* currentSnapshot: the newest operation's (row n), or else, with no       *)
(* operation (n = 0), the live release on the gateways it is bound to.     *)
Snapshot(e, n, rev, gs) ==
    \/ /\ n \in OpsIn(e) /\ \A k \in OpsIn(e) : k <= n
       /\ rev = op[n].rev /\ gs = op[n].gateways
    \/ /\ OpsIn(e) = {} /\ n = 0
       /\ \E i \in Live(e) : rev = rel[i].rev
       /\ gs = bound[e]
HasSnapshot(e) == OpsIn(e) # {} \/ Live(e) # {}

(* writeRevision makes a revision nothing has published yet.               *)
Fresh == Revs \ ({rel[i].rev : i \in RelIds} \cup {op[i].rev : i \in OpIds})

(* readGateways: the gateways the caller names, or else the snapshot's, or *)
(* else every gateway there is now.  One that is not there is refused.     *)
GatewayLists(e) == SUBSET {g \in Listable : EnvOf[g] = e}
Named(e, choice, kept) ==
    IF choice # {} THEN choice ELSE IF kept # {} THEN kept ELSE Present(e)
Offered(e, gateways) == gateways # {} /\ gateways \subseteq Present(e)

(* queue(): the row, its revision frozen with it.                          *)
Enqueue(e, rev, gateways, parent, source) ==
    /\ nop < MaxOps
    /\ nop' = nop + 1
    /\ op' = [op EXCEPT ![nop + 1] =
                 [env |-> e, rev |-> rev, gateways |-> gateways, parent |-> parent,
                  source |-> source, state |-> "queued", attempts |-> 0]]

-----------------------------------------------------------------------------
(* publishResource: the resource, its first revision and its operation are *)
(* one transaction.                                                        *)
Publish(p) ==
    /\ Serving(p) /\ alive
    /\ nop = 0 /\ nrel = 0
    /\ \E e \in Envs, rev \in Fresh :
          /\ Predecessor[e] = NoEnv
          /\ \E choice \in GatewayLists(e) :
                LET gs == Named(e, choice, {}) IN
                Offered(e, gs) /\ Enqueue(e, rev, gs, 0, NoEnv)
    /\ UNCHANGED <<releaseVars, request, etag, acked, spine, written, opFloor>>

BeginConfigure(p, s, e) ==
    /\ Serving(p) /\ alive
    /\ request[p][s].kind = "none"
    /\ \E n \in 0..MaxOps, rev \in Revs, gs \in SUBSET Gateways :
          /\ Snapshot(e, n, rev, gs)
          /\ request' = [request EXCEPT ![p][s] =
                            [kind |-> "configure", env |-> e, rev |-> rev,
                             gateways |-> gs, parent |-> 0,
                             source |-> NoEnv, etag |-> etag]]
    /\ UNCHANGED <<releaseVars, op, nop, etag, acked, spine, written, opFloor>>

(* If-Match is checked again inside the transaction.                       *)
FinishConfigure(p, s) ==
    LET r == request[p][s] IN
    /\ Serving(p)
    /\ r.kind = "configure"
    /\ request' = [request EXCEPT ![p][s] = NoRequest]
    /\ \E rev \in {r.rev} \cup Fresh, choice \in GatewayLists(r.env) :
          LET gs == Named(r.env, choice, r.gateways)
              accepted == r.etag = etag /\ alive /\ Offered(r.env, gs)
          IN \/ accepted /\ Enqueue(r.env, rev, gs, 0, NoEnv) /\ etag' = etag + 1
             \/ ~accepted /\ UNCHANGED <<op, nop, etag>>
    /\ UNCHANGED <<releaseVars, acked, spine, written, opFloor>>

(* promoteResource reads the source's snapshot and its newest operation at *)
(* once, before it awaits, and does not look at the resource again.        *)
KeptGateways(e, gs) ==
    IF HasSnapshot(e)
    THEN \E n \in 0..MaxOps, rev \in Revs : Snapshot(e, n, rev, gs)
    ELSE gs = {}

BeginPromote(p, s, e) ==
    LET source == Predecessor[e] IN
    /\ Serving(p) /\ alive
    /\ request[p][s].kind = "none"
    /\ source # NoEnv
    /\ \E n \in 0..MaxOps, rev \in Revs, from, to \in SUBSET Gateways :
          /\ Snapshot(source, n, rev, from)
          /\ KeptGateways(e, to)
          /\ request' = [request EXCEPT ![p][s] =
                            [kind |-> "promote", env |-> e, rev |-> rev,
                             gateways |-> to, parent |-> n, source |-> source,
                             etag |-> 0]]
    /\ UNCHANGED <<releaseVars, op, nop, etag, acked, spine, written, opFloor>>

SourceReread(r) == Max(OpsIn(r.source) \cup {0}) \* mutant
SourceRead(r) == r.parent
FinishPromote(p, s) ==
    LET r == request[p][s] IN
    /\ Serving(p)
    /\ r.kind = "promote"
    /\ request' = [request EXCEPT ![p][s] = NoRequest]
    /\ \E choice \in GatewayLists(r.env) :
          LET gs == Named(r.env, choice, r.gateways) IN
          \/ Offered(r.env, gs) /\ Enqueue(r.env, r.rev, gs, SourceRead(r), r.source)
          \/ ~Offered(r.env, gs) /\ UNCHANGED <<op, nop>>
    /\ UNCHANGED <<releaseVars, etag, acked, spine, written, opFloor>>

-----------------------------------------------------------------------------
(* A poll tells the control plane the fleet runs the current document;     *)
(* something outside this API changes that document.                       *)
FleetReports(p, e) ==
    /\ Serving(p)
    /\ ~acked[e] /\ Present(e) # {}
    /\ acked' = [acked EXCEPT ![e] = TRUE]
    /\ UNCHANGED <<releaseVars, op, nop, request, etag, spine, written, opFloor>>

DocumentChanges(p, e) ==
    /\ Serving(p)
    /\ acked[e]
    /\ acked' = [acked EXCEPT ![e] = FALSE]
    /\ UNCHANGED <<releaseVars, op, nop, request, etag, spine, written, opFloor>>

(* What a change of the projection does to the fleet's acknowledgement.    *)
Behind ==
    [e \in Envs |-> /\ acked[e]
                    /\ \A g \in Gateways : EnvOf[g] = e => applied'[g] = applied[g]]

-----------------------------------------------------------------------------
(* runOperations: the rows that are due, in order of rowid.                *)
SelectOps(p) ==
    /\ pass[p].step = "operations" /\ spine[p].step = "select"
    /\ LET pending == {i \in OpIds : op[i].state \in PendingStates} IN
       \E backedOff \in SUBSET {i \in pending : op[i].attempts > 0} :
          spine' = [spine EXCEPT ![p] = [step |-> "run", due |-> pending \ backedOff]]
    /\ UNCHANGED <<releaseVars, op, nop, request, etag, acked, written, opFloor>>

(* An earlier operation of the same API here is not settled, or what this  *)
(* one was captured from has not arrived.                                  *)
EarlierIgnored(i) == FALSE \* mutant
EarlierUnsettled(i) == \E k \in OpsIn(op[i].env) : k < i /\ op[k].state # "complete"
SourceIgnored(i) == FALSE \* mutant
SourceMissing(i) ==
    IF op[i].parent # 0 THEN op[op[i].parent].state # "complete"
    ELSE op[i].source # NoEnv /\ ~acked[op[i].source]
Waits(i) == EarlierUnsettled(i) \/ SourceMissing(i)

(* Names, resolved now: a gateway may have gone while the row was queued.  *)
Chosen(i) == op[i].gateways

PauseIgnored(i) == \* mutant
    Chosen(i) = {} \/ op[i].env \in unbuildable \/ ~alive
Unavailable(i) ==
    \/ Chosen(i) = {}
    \/ \E g \in Chosen(i) : gateway[g] # "open"
    \/ op[i].env \in unbuildable
    \/ ~alive

OpWaits(i) ==
    /\ Waits(i)
    /\ UNCHANGED <<rows, projection, op, acked, written>>

OpApplies(i) ==
    LET e == op[i].env IN
    /\ ~Waits(i)
    /\ ~Unavailable(i)
    /\ GoLive(e, op[i].rev, Chosen(i))
    /\ op' = [op EXCEPT ![i].state = "waiting-for-gateways"]
    /\ \E same \in BOOLEAN : acked' = [Behind EXCEPT ![e] = @ /\ same]
    /\ written' = [written EXCEPT ![e] = i]

FailedForGood(i) == "failed" \* mutant
FailedState(i) ==
    IF op[i].attempts + 1 >= MaxAttempts THEN "blocked" ELSE "retrying"
OpFails(i) ==
    /\ ~Waits(i)
    /\ Unavailable(i)
    /\ op' = [op EXCEPT
                 ![i].attempts = IF @ < MaxAttempts THEN @ + 1 ELSE @,
                 ![i].state = FailedState(i)]
    /\ UNCHANGED <<rows, projection, acked, written>>

RunOperation(p) ==
    /\ pass[p].step = "operations" /\ spine[p].step = "run" /\ spine[p].due # {}
    /\ \E i \in spine[p].due :
          /\ \A k \in spine[p].due : i <= k
          /\ OpWaits(i) \/ OpApplies(i) \/ OpFails(i)
          /\ spine' = [spine EXCEPT ![p].due = @ \ {i}]
    /\ UNCHANGED <<queue, fleet, alive, pass, floor, nop, request, etag, opFloor>>

(* Then every environment whose fleet has applied its configuration.       *)
Settle(p) ==
    /\ pass[p].step = "operations" /\ spine[p].step = "run" /\ spine[p].due = {}
    /\ op' = [i \in OpIds |->
                 IF op[i].state = "waiting-for-gateways" /\ acked[op[i].env]
                 THEN [op[i] EXCEPT !.state = "complete"] ELSE op[i]]
    /\ spine' = [spine EXCEPT ![p].step = "settled"]
    /\ UNCHANGED <<releaseVars, nop, request, etag, acked, written, opFloor>>

-----------------------------------------------------------------------------
(* The release side of the composition.  Operations outlive the API they   *)
(* are for; a crash drops the commands in flight.                          *)
RunJobs(p) ==
    /\ Runner(p)
    /\ pass[p].step = "operations" => spine[p].step = "settled"
    /\ spine' = [spine EXCEPT ![p] = NotStarted]
    /\ acked' = Behind
    /\ opFloor' = [e \in Envs |-> IF /\ pass[p].step = "taken" /\ pass'[p].step = "done"
                                     /\ job[pass[p].job].intent = "remove"
                                     /\ job[pass[p].job].env = e
                                  THEN nop ELSE opFloor[e]]
    /\ UNCHANGED <<op, nop, request, etag, written>>

HandleRelease(p) ==
    /\ Handlers(p) \/ Tick(p)
    /\ acked' = Behind
    /\ UNCHANGED <<op, nop, request, etag, spine, written, opFloor>>

Die(p) ==
    /\ Crash(p)
    /\ spine' = [spine EXCEPT ![p] = NotStarted]
    /\ request' = [request EXCEPT ![p] = [s \in 1..MaxRequests |-> NoRequest]]
    /\ UNCHANGED <<op, nop, etag, acked, written, opFloor>>

Commands(p) ==
    \/ Publish(p)
    \/ \E s \in 1..MaxRequests :
          \/ \E e \in Envs : BeginConfigure(p, s, e) \/ BeginPromote(p, s, e)
          \/ FinishConfigure(p, s) \/ FinishPromote(p, s)

RunSpine(p) == SelectOps(p) \/ RunOperation(p) \/ Settle(p)

PromotionNext ==
    \E p \in Processes :
        \/ Commands(p) \/ RunSpine(p) \/ RunJobs(p) \/ HandleRelease(p) \/ Die(p)
        \/ \E e \in Envs : FleetReports(p, e) \/ DocumentChanges(p, e)

PromotionSpec == PromotionInit /\ [][PromotionNext]_promotionVars

(* As in Release.  A poll follows a change of the document, and in the end *)
(* no pass is cut short and nothing outside this API changes the document. *)
CutShort(p) == Die(p) /\ ~RunJobs(p)
Quiet == ~\E p \in Processes : CutShort(p) \/ \E e \in Envs : DocumentChanges(p, e)
FairPromotionSpec ==
    /\ PromotionSpec
    /\ <>[][Quiet]_promotionVars
    /\ \A p \in Processes :
          /\ WF_promotionVars(HandleRelease(p) /\ Tick(p))
          /\ WF_promotionVars(RunSpine(p))
          /\ WF_promotionVars(RunJobs(p))
          /\ \A i \in OpIds : SF_promotionVars(SelectOps(p) /\ i \in spine[p].due')
          /\ \A j \in JobIds : SF_promotionVars(RunJobs(p) /\ SelectJobs(p) /\ j \in pass[p].due')
          /\ \A e \in Envs : SF_promotionVars(FleetReports(p, e))

-----------------------------------------------------------------------------
(* The composition behaves as the release table's specification says, so   *)
(* what is proved there holds here.                                        *)
ImplementsRelease == Spec

(* An older snapshot is never written over a newer one.                    *)
SnapshotsInOrder == [][\A e \in Envs : written'[e] >= written[e]]_promotionVars

(* A promotion is written only after the operation it was captured from is *)
(* complete, so its revision has reached the previous stage's fleet: the   *)
(* spine keeps the gate that the release endpoint computes.                *)
SpineKeepsGate ==
    \A i \in OpIds :
        op[i].source # NoEnv /\ op[i].state \in AppliedStates /\ alive =>
            ReachedFleet(op[i].rev, op[i].source)

(* What a promotion carries is what its source operation published, however *)
(* long settings took to resolve and whatever was queued meanwhile.         *)
PromotesItsSource ==
    \A i \in OpIds : op[i].parent # 0 => op[i].rev = op[op[i].parent].rev

(* A promotion follows its source in both senses.                          *)
PromotionsFollow == PromotesItsSource /\ SpineKeepsGate

(* Every operation completes in the end, where gateways stay open and      *)
(* there is no obstacle.                                                   *)
OperationsComplete ==
    <>[](alive /\ unbuildable = {} /\ \A g \in Gateways : gateway[g] = "open") =>
        <>[](\A i \in OpIds : op[i].state \in {"none", "complete"})

-----------------------------------------------------------------------------
(* Once an API is withdrawn from an environment it stays withdrawn: nothing *)
(* accepted before the withdrawal publishes it there again.                 *)
WithdrawalOutlastsQueue ==
    [][\A e \in Envs : written'[e] # written[e] => written'[e] > opFloor[e]]_promotionVars
=============================================================================
