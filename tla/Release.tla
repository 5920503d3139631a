------------------------------ MODULE Release -------------------------------
(***************************************************************************)
(* The release rows of one API, in every environment of the promotion      *)
(* chain, and the durable jobs that apply and withdraw them                *)
(* (control-plane/src/jobs.ts, promotion.ts, api/promotion.ts and the      *)
(* withdraw and delete handlers of api/resources.ts).                      *)
(*                                                                         *)
(* A handler and a pass of runDueJobs are synchronous: within one process  *)
(* nothing interleaves with them, so a handler that ends in runDueJobs     *)
(* starts the process's pass and no handler of that process runs until     *)
(* the pass is over.  A process may die between any two statements that    *)
(* commit.  Production runs one control plane; the lease that reconcile    *)
(* takes allows for several on one database, and so does Processes.        *)
(*                                                                         *)
(* A row id is the rowid, the insertion order both writers of release      *)
(* share.  The second writer, the operation spine, is the action           *)
(* SpineWrites here and is modelled in Promotion, which implements this    *)
(* specification.                                                          *)
(*                                                                         *)
(* Data left out: plans (a plan is recomputed when it is applied, so only  *)
(* its gate matters), policy seeding, audit rows, the target lease (a      *)
(* retriable throw), LIMIT 20 (more than the bounds allow), and the names  *)
(* and the text of everything.                                             *)
(***************************************************************************)
EXTENDS Naturals, FiniteSets, FiniteSetsExt

CONSTANTS
    Envs,           \* PROMOTION_CHAIN
    Predecessor,    \* predecessorOf(chain, e), NoEnv for the first link
    NoEnv,
    Revs, NoRev,    \* revisions of the API
    Gateways,       \* targets
    EnvOf,          \* target.environment
    Removable,      \* targets that may be missing, created or deleted (bound)
    Obstructible,   \* environments where a build may meet an obstacle (bound)
    Processes,      \* control planes on this database
    MaxReleases,    \* release rows ever inserted (bound)
    MaxJobs         \* reconcile jobs ever enqueued (bound)

ASSUME ReleaseAssumption ==
    /\ NoEnv \notin Envs
    /\ NoRev \notin Revs
    /\ Predecessor \in [Envs -> Envs \cup {NoEnv}]
    /\ EnvOf \in [Gateways -> Envs]
    /\ Removable \subseteq Gateways
    /\ Obstructible \subseteq Envs
    /\ MaxReleases \in Nat
    /\ MaxJobs \in Nat

VARIABLES
    rel,         \* the release table
    nrel,        \* rows inserted so far
    job,         \* the job table, reconcile jobs only
    njob,
    gateway,     \* target rows: absent, open or paused
    bound,       \* route_gateway, per environment
    applied,     \* the applied table: revision on each gateway
    unbuildable, \* environments where buildRoutes or computePlan has an obstacle
    alive,       \* the resource row exists
    pass,        \* the pass of runDueJobs each process is in
    floor        \* history: newest row when each environment was last withdrawn from

rows == <<rel, nrel>>
queue == <<job, njob>>
projection == <<bound, applied>>
fleet == <<gateway, unbuildable>>
releaseVars == <<rows, queue, projection, fleet, alive, pass, floor>>

-----------------------------------------------------------------------------
RelIds == 1..MaxReleases
JobIds == 1..MaxJobs
ReachedStates == {"converged", "superseded", "withdrawn"}
(* No release fails: a reconcile is only given up when its environment is  *)
(* unknown, and a release says which environment it is for.                *)
States == ReachedStates \cup {"none", "pending", "stale"}

(* exempt: not subject to the promotion gate, a break-glass release or one  *)
(* the spine wrote.                                                         *)
Row == [env : Envs \cup {NoEnv}, rev : Revs \cup {NoRev}, state : States,
        exempt : BOOLEAN]
NoRow == [env |-> NoEnv, rev |-> NoRev, state |-> "none", exempt |-> FALSE]

Job == [intent : {"apply", "remove"}, env : Envs \cup {NoEnv},
        release : 0..MaxReleases,
        state : {"none", "queued", "running", "done"}, tried : BOOLEAN]
NoJob == [intent |-> "remove", env |-> NoEnv, release |-> 0,
          state |-> "none", tried |-> FALSE]

(* Where a process is in runDueJobs: runOperations, then the jobs that were *)
(* due, each taken, run and marked.  A delete handler ends after its pass.  *)
Pass == [step : {"idle", "operations", "jobs", "taken", "done", "queued"},
         due : SUBSET JobIds, job : 0..MaxJobs, delete : BOOLEAN]
Idle == [step |-> "idle", due |-> {}, job |-> 0, delete |-> FALSE]
NewPass(delete) ==
    [step |-> "operations", due |-> {}, job |-> 0, delete |-> delete]

TypeOK ==
    /\ rel \in [RelIds -> Row]
    /\ nrel \in 0..MaxReleases
    /\ job \in [JobIds -> Job]
    /\ njob \in 0..MaxJobs
    /\ gateway \in [Gateways -> {"absent", "open", "paused"}]
    /\ bound \in [Envs -> SUBSET Gateways]
    /\ applied \in [Gateways -> Revs \cup {NoRev}]
    /\ unbuildable \subseteq Envs
    /\ alive \in BOOLEAN
    /\ pass \in [Processes -> Pass]
    /\ floor \in [Envs -> 0..MaxReleases]

Init ==
    /\ rel = [i \in RelIds |-> NoRow]
    /\ nrel = 0
    /\ job = [j \in JobIds |-> NoJob]
    /\ njob = 0
    /\ gateway \in [Gateways -> {"absent", "open"}]
    /\ \A g \in Gateways \ Removable : gateway[g] = "open"
    /\ bound = [e \in Envs |-> {}]
    /\ applied = [g \in Gateways |-> NoRev]
    /\ unbuildable = {}
    /\ alive = TRUE
    /\ pass = [p \in Processes |-> Idle]
    /\ floor = [e \in Envs |-> 0]

-----------------------------------------------------------------------------
(* The state of the release table.                                         *)
In(e) == {i \in RelIds : rel[i].env = e}
Live(e) == {i \in In(e) : rel[i].state = "converged"}
Reached(e) == {i \in In(e) : rel[i].state \in ReachedStates}

ReachedFleetNow(rev, e) == \E i \in Live(e) : rel[i].rev = rev \* mutant
ReachedFleet(rev, e) == \E i \in Reached(e) : rel[i].rev = rev

ChainBlocker(rev, e, skipChain) ==
    /\ Predecessor[e] # NoEnv
    /\ ~skipChain
    /\ ~ReachedFleet(rev, Predecessor[e])

Present(e) == {g \in Gateways : EnvOf[g] = e /\ gateway[g] # "absent"}

(* Every row of environment e in state from moves to state to.             *)
Move(e, from, to, r) ==
    [i \in RelIds |-> IF r[i].env = e /\ r[i].state = from
                      THEN [r[i] EXCEPT !.state = to] ELSE r[i]]

NewJob(intent, e, release) ==
    [intent |-> intent, env |-> e, release |-> release,
     state |-> "queued", tried |-> FALSE]

Serving(p) == pass[p].step = "idle"

-----------------------------------------------------------------------------
(* POST /api/resources/:id/releases.  An obstacle need not be one that     *)
(* computePlan can see: a deny rule only shows when routes are built.      *)
Confirm(p, e, rev, skipChain) ==
    /\ Serving(p) /\ alive
    /\ nrel < MaxReleases /\ njob < MaxJobs
    /\ Present(e) # {}
    /\ ~ChainBlocker(rev, e, skipChain)
    /\ nrel' = nrel + 1
    /\ rel' = [rel EXCEPT ![nrel + 1] =
                  [env |-> e, rev |-> rev, state |-> "pending",
                   exempt |-> skipChain]]
    /\ njob' = njob + 1
    /\ job' = [job EXCEPT ![njob + 1] = NewJob("apply", e, nrel + 1)]
    /\ pass' = [pass EXCEPT ![p] = NewPass(FALSE)]
    /\ UNCHANGED <<projection, fleet, alive, floor>>

(* DELETE /api/resources/:id/releases.                                     *)
Withdraw(p, e) ==
    /\ Serving(p) /\ alive
    /\ njob < MaxJobs
    /\ Present(e) # {}
    /\ njob' = njob + 1
    /\ job' = [job EXCEPT ![njob + 1] = NewJob("remove", e, 0)]
    /\ pass' = [pass EXCEPT ![p] = NewPass(FALSE)]
    /\ UNCHANGED <<rows, projection, fleet, alive, floor>>

(* DELETE /api/resources/:id: one withdrawal per gateway, then a pass, and *)
(* only then the row (EndPass).                                            *)
DeleteResource(p) ==
    LET targets == {g \in Gateways : gateway[g] # "absent"} IN
    /\ Serving(p) /\ alive
    /\ \E n \in 0..(MaxJobs - njob) : \E order \in [1..n -> targets] :
          /\ n = Cardinality(targets)
          /\ \A g \in targets : \E k \in 1..n : order[k] = g
          /\ njob' = njob + n
          /\ job' = [j \in JobIds |->
                        IF j - njob \in 1..n
                        THEN NewJob("remove", EnvOf[order[j - njob]], 0)
                        ELSE job[j]]
    /\ pass' = [pass EXCEPT ![p] = NewPass(TRUE)]
    /\ UNCHANGED <<rows, projection, fleet, alive, floor>>

(* setInterval in startJobRunner.                                          *)
Tick(p) ==
    /\ Serving(p)
    /\ pass' = [pass EXCEPT ![p] = NewPass(FALSE)]
    /\ UNCHANGED <<rows, queue, projection, fleet, alive, floor>>

-----------------------------------------------------------------------------
(* Gateways come, go and are paused (api/fleet.ts); a backend can be       *)
(* blocked by a deny rule, or a route or binding go missing, and come back.*)
CreateGateway(p, g) ==
    /\ Serving(p)
    /\ gateway[g] = "absent"
    /\ gateway' = [gateway EXCEPT ![g] = "open"]
    /\ UNCHANGED <<rows, queue, projection, unbuildable, alive, pass, floor>>

DeleteGateway(p, g) ==
    /\ Serving(p) /\ g \in Removable
    /\ gateway[g] # "absent"
    /\ g \notin bound[EnvOf[g]]
    /\ gateway' = [gateway EXCEPT ![g] = "absent"]
    /\ applied' = [applied EXCEPT ![g] = NoRev]
    /\ UNCHANGED <<rows, queue, bound, unbuildable, alive, pass, floor>>

SetPaused(p, g) ==
    /\ Serving(p)
    /\ gateway[g] # "absent"
    /\ gateway' = [gateway EXCEPT ![g] = IF @ = "open" THEN "paused" ELSE "open"]
    /\ UNCHANGED <<rows, queue, projection, unbuildable, alive, pass, floor>>

Obstruct(p, e) ==
    /\ Serving(p) /\ e \in Obstructible
    /\ unbuildable' = IF e \in unbuildable THEN unbuildable \ {e}
                                           ELSE unbuildable \cup {e}
    /\ UNCHANGED <<rows, queue, projection, gateway, alive, pass, floor>>

-----------------------------------------------------------------------------
(* The spine's transaction in runOperations: revision rev goes live in e   *)
(* on exactly the chosen gateways.                                         *)
ProjectMerged(e, rev, chosen) == \* mutant
    /\ bound' = [bound EXCEPT ![e] = chosen]
    /\ applied' = [g \in Gateways |-> IF g \in chosen THEN rev ELSE applied[g]]
Project(e, rev, chosen) ==
    /\ bound' = [bound EXCEPT ![e] = chosen]
    /\ applied' = [g \in Gateways |->
                      IF g \in chosen THEN rev
                      ELSE IF EnvOf[g] = e THEN NoRev ELSE applied[g]]

SpineLiveBeside(e, rev) == \* mutant
    [rel EXCEPT ![nrel + 1] =
        [env |-> e, rev |-> rev, state |-> "converged", exempt |-> TRUE]]
SpineLive(e, rev) ==
    [Move(e, "converged", "superseded", rel) EXCEPT ![nrel + 1] =
        [env |-> e, rev |-> rev, state |-> "converged", exempt |-> TRUE]]

SpineMay(e, chosen) ==
    /\ alive
    /\ chosen # {} /\ chosen \subseteq Present(e)
    /\ \A g \in chosen : gateway[g] = "open"
    /\ e \notin unbuildable

GoLive(e, rev, chosen) ==
    /\ nrel < MaxReleases
    /\ rel' = SpineLive(e, rev)
    /\ nrel' = nrel + 1
    /\ Project(e, rev, chosen)

SpineWrites(p) ==
    /\ pass[p].step = "operations"
    /\ \E e \in Envs, rev \in Revs, chosen \in SUBSET Gateways :
          SpineMay(e, chosen) /\ GoLive(e, rev, chosen)
    /\ UNCHANGED <<queue, fleet, alive, pass, floor>>

-----------------------------------------------------------------------------
StuckNever == {} \* mutant
Stuck == {j \in JobIds : job[j].state = "running"}

(* runDueJobs after runOperations: jobs left running for a minute are      *)
(* queued again; a job that never failed is due, one that did is due once  *)
(* its backoff is over.                                                    *)
SelectJobs(p) ==
    /\ pass[p].step = "operations"
    /\ \E stuck \in SUBSET Stuck :
          LET requeued == [j \in JobIds |->
                 IF j \in stuck THEN [job[j] EXCEPT !.state = "queued"] ELSE job[j]]
              queued == {j \in JobIds : requeued[j].state = "queued"}
              tried == {j \in queued : requeued[j].tried}
          IN \E backedOff \in SUBSET tried :
                /\ job' = requeued
                /\ pass' = [pass EXCEPT ![p].step = "jobs",
                                        ![p].due = queued \ backedOff]
    /\ UNCHANGED <<rows, njob, projection, fleet, alive, floor>>

TakeJob(p) ==
    /\ pass[p].step = "jobs" /\ pass[p].due # {}
    /\ \E j \in pass[p].due :
          /\ \A k \in pass[p].due : j <= k
          /\ job' = [job EXCEPT ![j].state = "running"]
          /\ pass' = [pass EXCEPT ![p].step = "taken", ![p].job = j,
                                  ![p].due = @ \ {j}]
    /\ UNCHANGED <<rows, njob, projection, fleet, alive, floor>>

(* What reconcile asks before it touches anything.                         *)
AffectedHandle(j) == \* mutant
    LET here == Present(job[j].env)
    IN IF here = {} THEN {} ELSE {CHOOSE g \in here : TRUE}
Affected(j) ==
    IF job[j].intent = "remove" \/ bound[job[j].env] = {}
    THEN Present(job[j].env)
    ELSE bound[job[j].env] \cap Present(job[j].env)

Gone(j) ==
    /\ job[j].intent = "apply"
    /\ rel[job[j].release].state = "none"

Throws(j) ==
    \/ job[j].intent = "apply" /\ Affected(j) = {}
    \/ \E g \in Affected(j) : gateway[g] = "paused"

(* The transaction, one disjunct per way through it.                       *)
TakenDownLive(e) == Move(e, "converged", "withdrawn", rel) \* mutant
TakenDown(e) ==
    Move(e, "pending", "stale", Move(e, "converged", "withdrawn", rel))

Removes(j) ==
    LET e == job[j].env IN
    /\ job[j].intent = "remove"
    /\ rel' = TakenDown(e)
    /\ bound' = [bound EXCEPT ![e] = {}]
    /\ applied' = [g \in Gateways |-> IF EnvOf[g] = e THEN NoRev ELSE applied[g]]
    /\ floor' = [floor EXCEPT ![e] = nrel]

OvertakenNever(i) == FALSE \* mutant
Overtaken(i) == \E k \in Reached(rel[i].env) : k > i

GoesStaleFailed(j) == \* mutant
    /\ job[j].intent = "apply"
    /\ rel[job[j].release].state = "pending"
    /\ Overtaken(job[j].release)
    /\ rel' = [rel EXCEPT ![job[j].release].state = "failed"]
    /\ UNCHANGED <<projection, floor>>
GoesStaleAny(j) == \* mutant
    /\ job[j].intent = "apply"
    /\ rel[job[j].release].state # "none"
    /\ Overtaken(job[j].release)
    /\ rel' = [rel EXCEPT ![job[j].release].state = "stale"]
    /\ UNCHANGED <<projection, floor>>
GoesStale(j) ==
    LET i == job[j].release IN
    /\ job[j].intent = "apply"
    /\ rel[i].state = "pending"
    /\ Overtaken(i)
    /\ rel' = [rel EXCEPT ![i].state = "stale"]
    /\ UNCHANGED <<projection, floor>>

Blocked(i) ==
    \/ rel[i].env \in unbuildable
    \/ ChainBlocker(rel[i].rev, rel[i].env, rel[i].exempt)

Applies(j) ==
    LET i == job[j].release
        e == job[j].env
    IN
    /\ job[j].intent = "apply"
    /\ rel[i].state = "pending"
    /\ ~Overtaken(i)
    /\ ~Blocked(i)
    /\ rel' = [Move(e, "converged", "superseded", rel)
                  EXCEPT ![i].state = "converged"]
    /\ LET on == IF bound[e] = {} THEN Present(e) ELSE bound[e] IN
          /\ bound' = [bound EXCEPT ![e] = on]
          /\ applied' = [g \in Gateways |->
                            IF g \in on THEN rel[i].rev ELSE applied[g]]
    /\ UNCHANGED floor

Replayed(j) ==
    /\ job[j].intent = "apply"
    /\ rel[job[j].release].state # "pending"
    /\ UNCHANGED <<rel, projection, floor>>

Retried(j) ==
    /\ \/ Throws(j)
       \/ /\ job[j].intent = "apply"
          /\ rel[job[j].release].state = "pending"
          /\ ~Overtaken(job[j].release)
          /\ Blocked(job[j].release)
    /\ ~Gone(j)
    /\ UNCHANGED <<rel, projection, floor>>

Reconcile(p) ==
    LET j == pass[p].job IN
    /\ pass[p].step = "taken"
    /\ \/ /\ Gone(j) \/ ~Throws(j)
          /\ Removes(j) \/ GoesStale(j) \/ Applies(j) \/ Replayed(j)
          /\ pass' = [pass EXCEPT ![p].step = "done"]
       \/ /\ Retried(j)
          /\ pass' = [pass EXCEPT ![p].step = "queued"]
    /\ UNCHANGED <<nrel, queue, fleet, alive>>

(* runDueJobs records the outcome in a statement of its own.               *)
MarkJob(p) ==
    /\ pass[p].step \in {"done", "queued"}
    /\ job' = [job EXCEPT ![pass[p].job].state = pass[p].step,
                          ![pass[p].job].tried = TRUE]
    /\ pass' = [pass EXCEPT ![p].step = "jobs", ![p].job = 0]
    /\ UNCHANGED <<rows, njob, projection, fleet, alive, floor>>

EndPass(p) ==
    /\ pass[p].step = "jobs" /\ pass[p].due = {}
    /\ pass' = [pass EXCEPT ![p] = Idle]
    /\ IF pass[p].delete
       THEN /\ rel' = [i \in RelIds |-> NoRow]
            /\ bound' = [e \in Envs |-> {}]
            /\ applied' = [g \in Gateways |-> NoRev]
            /\ alive' = FALSE
       ELSE UNCHANGED <<rel, projection, alive>>
    /\ UNCHANGED <<nrel, queue, fleet, floor>>

Crash(p) ==
    /\ ~Serving(p)
    /\ pass' = [pass EXCEPT ![p] = Idle]
    /\ UNCHANGED <<rows, queue, projection, fleet, alive, floor>>

-----------------------------------------------------------------------------
Handlers(p) ==
    \/ \E e \in Envs, rev \in Revs, skip \in BOOLEAN : Confirm(p, e, rev, skip)
    \/ \E e \in Envs : Withdraw(p, e)
    \/ DeleteResource(p)
    \/ \E g \in Gateways :
          CreateGateway(p, g) \/ DeleteGateway(p, g) \/ SetPaused(p, g)
    \/ \E e \in Envs : Obstruct(p, e)

Runner(p) ==
    SelectJobs(p) \/ TakeJob(p) \/ Reconcile(p) \/ MarkJob(p) \/ EndPass(p)

Next ==
    \E p \in Processes :
        Handlers(p) \/ Tick(p) \/ SpineWrites(p) \/ Runner(p) \/ Crash(p)

Spec == Init /\ [][Next]_releaseVars

(* A job that is not done is due again and again (the backoff is at most   *)
(* five minutes, a pass starts every 500 ms), and a process that keeps     *)
(* dying gets through each statement of a pass eventually.                 *)
FairSpec ==
    /\ Spec
    /\ \A p \in Processes :
          /\ WF_releaseVars(Tick(p))
          /\ WF_releaseVars(SelectJobs(p))
          /\ \A j \in JobIds : SF_releaseVars(SelectJobs(p) /\ j \in pass[p].due')
          /\ SF_releaseVars(TakeJob(p))
          /\ SF_releaseVars(Reconcile(p))
          /\ SF_releaseVars(MarkJob(p))
          /\ WF_releaseVars(EndPass(p))

-----------------------------------------------------------------------------
(* The unique index release_live is never tripped: at most one release of  *)
(* the API is live in an environment, whichever writer put it there.       *)
OneLive == \A e \in Envs : \A i, k \in Live(e) : i = k

(* No earlier release overtakes one that reached the fleet after it: the   *)
(* live release is the newest that ever reached it, however long the jobs  *)
(* of older ones were retried or how often one is replayed.                *)
LiveIsNewest == \A e \in Envs : \A i \in Live(e), k \in Reached(e) : k <= i

(* A withdrawal wins: no release that existed when the API was withdrawn   *)
(* from an environment is live there again.                                *)
WithdrawalWins == \A e \in Envs : \A i \in Live(e) : i > floor[e]

(* However jobs are retried, replayed or cut short, nothing older than     *)
(* what reached the fleet last, or than a withdrawal, is live again, and   *)
(* never two at once.                                                      *)
NothingComesBack == OneLive /\ LiveIsNewest /\ WithdrawalWins

(* "Withdrawn from TEST" never means "withdrawn from half of TEST": the    *)
(* applied table says the live revision on exactly the gateways the API is *)
(* bound to, and a bound gateway exists.                                   *)
AppliedIsLive ==
    \A e \in Envs :
        /\ bound[e] \subseteq Present(e)
        /\ (bound[e] = {}) <=> (Live(e) = {})
        /\ \A g \in Gateways : EnvOf[g] = e =>
              \/ g \in bound[e] /\ \E i \in Live(e) : applied[g] = rel[i].rev
              \/ g \notin bound[e] /\ applied[g] = NoRev

(* Promotion is along the chain: a release that went through the gate has  *)
(* a revision that reached the predecessor earlier, and what made the gate *)
(* open stays true for as long as its job is retried.                      *)
GateHolds ==
    \A i \in RelIds :
        rel[i].state = "none" \/ ~ChainBlocker(rel[i].rev, rel[i].env, rel[i].exempt)

(* What reached the fleet has reached it for ever, and a release that was  *)
(* superseded, withdrawn or went stale is never touched again (the trigger *)
(* release_state_history and the guards on pending), until the API goes.   *)
HistoryStep(i) ==
    \/ rel'[i] = rel[i]
    \/ ~alive'
    \/ rel[i].state = "none" /\ rel'[i].state \in {"pending", "converged"}
    \/ /\ rel'[i] = [rel[i] EXCEPT !.state = rel'[i].state]
       /\ \/ rel[i].state = "pending" /\ rel'[i].state \in {"converged", "stale"}
          \/ rel[i].state = "converged" /\ rel'[i].state \in {"superseded", "withdrawn"}
StateHistory == [][\A i \in RelIds : HistoryStep(i)]_releaseVars

(* The reconciler holds a change while a gateway it is for is paused: only *)
(* the spine, or the deletion of the API, takes anything off one.          *)
JobsRespectPause ==
    [][\A g \in Gateways :
          gateway[g] = "paused" /\ applied'[g] # applied[g] =>
             ~alive' \/ \E p \in Processes : pass[p].step = "operations"]_releaseVars

(* Nothing is rewritten behind anybody's back: neither the record of what  *)
(* was released nor what a paused gateway serves.                          *)
JobsKeepToTheirs == StateHistory /\ JobsRespectPause

(* A job is not abandoned: while an environment stays able to take changes *)
(* every job for it is done in the end, across failures and crashes.       *)
Ready(e) ==
    /\ Present(e) # {}
    /\ e \notin unbuildable
    /\ \A g \in Present(e) : gateway[g] = "open"
JobsFinish ==
    \A e \in Envs : <>[]Ready(e) =>
        \A j \in JobIds : <>[](job[j].env = e => job[j].state = "done")

=============================================================================
