--------------------------- MODULE ReleaseProofs ----------------------------
(***************************************************************************)
(* Theorems about Release for any promotion chain, any gateways, any       *)
(* number of control planes on the database and any number of releases.    *)
(*                                                                         *)
(* The inductive invariant IInv adds to the properties what their guards   *)
(* rest on: rows and jobs are filled in insertion order, a job names a     *)
(* release of its own environment, a process only works on jobs that       *)
(* exist, and nothing that was there at a withdrawal is still pending.     *)
(***************************************************************************)
EXTENDS Release, TLAPS

RowsFilled ==
    \A i \in RelIds :
        /\ i > nrel => rel[i].state = "none"
        /\ rel[i].state = "none" => rel[i].env = NoEnv
        /\ rel[i].state # "none" => rel[i].env \in Envs /\ rel[i].rev \in Revs

JobsFilled ==
    \A j \in JobIds :
        /\ j > njob => job[j].state = "none"
        /\ job[j].state # "none" => job[j].env \in Envs
        /\ job[j].state # "none" /\ job[j].intent = "apply" =>
              /\ job[j].release \in RelIds /\ job[j].release <= nrel
              /\ rel[job[j].release].env \in {job[j].env, NoEnv}

PassesKnown ==
    \A p \in Processes :
        /\ \A j \in pass[p].due : job[j].state # "none"
        /\ pass[p].step \in {"taken", "done", "queued"} =>
              pass[p].job \in JobIds /\ job[pass[p].job].state # "none"

WithdrawnForGood ==
    \A e \in Envs :
        /\ floor[e] <= nrel
        /\ \A i \in In(e) : i <= floor[e] => rel[i].state \notin {"converged", "pending"}

RowInv ==
    RowsFilled /\ WithdrawnForGood /\ OneLive /\ LiveIsNewest /\ AppliedIsLive

IInv == TypeOK /\ JobsFilled /\ PassesKnown /\ RowInv

-----------------------------------------------------------------------------
(* Moving rows from one state to another touches nothing but their state.  *)
LEMMA MoveFacts ==
    ASSUME NEW e, NEW from, NEW to \in States, NEW r \in [RelIds -> Row]
    PROVE  /\ Move(e, from, to, r) \in [RelIds -> Row]
           /\ \A i \in RelIds :
                 /\ Move(e, from, to, r)[i].env = r[i].env
                 /\ Move(e, from, to, r)[i].rev = r[i].rev
                 /\ Move(e, from, to, r)[i].exempt = r[i].exempt
                 /\ Move(e, from, to, r)[i].state =
                       IF r[i].env = e /\ r[i].state = from THEN to ELSE r[i].state
  <1>1. \A i \in RelIds : r[i] \in Row
    OBVIOUS
  <1> QED
    BY <1>1 DEF Move, Row

LEMMA InitIInv == Init => IInv
  <1> SUFFICES ASSUME Init PROVE IInv OBVIOUS
  <1>1. TypeOK
    BY ReleaseAssumption DEF Init, TypeOK, ReleaseAssumption, NoRow, Row, NoJob, Job,
       Idle, Pass, States, ReachedStates
  <1>2. RowsFilled /\ JobsFilled /\ PassesKnown
    BY DEF Init, RowsFilled, JobsFilled, PassesKnown, NoRow, NoJob, Idle
  <1>3. \A e \in Envs : Live(e) = {} /\ Reached(e) = {} /\ In(e) = {}
    BY ReleaseAssumption DEF Init, Live, Reached, In, NoRow, ReachedStates, ReleaseAssumption
  <1>4. WithdrawnForGood /\ OneLive /\ LiveIsNewest /\ AppliedIsLive
    BY <1>3, ReleaseAssumption DEF Init, WithdrawnForGood, OneLive, LiveIsNewest, AppliedIsLive, ReleaseAssumption
  <1> QED BY <1>1, <1>2, <1>4 DEF IInv, RowInv

(* Steps that write no row, and take no bound gateway away, keep RowInv.    *)
LEMMA RowsKept ==
    ASSUME IInv, UNCHANGED <<rel, nrel, bound, applied, floor>>,
           \A g \in Gateways : gateway'[g] = "absent" =>
               gateway[g] = "absent" \/ g \notin bound[EnvOf[g]]
    PROVE  RowInv'
  <1>1. RowsFilled' /\ WithdrawnForGood' /\ OneLive' /\ LiveIsNewest'
    BY DEF IInv, RowInv, RowsFilled, WithdrawnForGood, OneLive, LiveIsNewest,
       Live, Reached, In
  <1>2. \A e \in Envs : bound[e] \subseteq Present(e)'
    BY DEF IInv, RowInv, AppliedIsLive, Present
  <1>3. \A e \in Envs : Live(e)' = Live(e)
    BY DEF Live, In
  <1>4. AppliedIsLive'
    BY <1>2, <1>3 DEF IInv, RowInv, AppliedIsLive
  <1> QED BY <1>1, <1>4 DEF RowInv

(* A confirmed release is a new pending row: nothing goes live.            *)
LEMMA ConfirmRows ==
    ASSUME IInv, NEW p \in Processes, NEW e \in Envs, NEW rev \in Revs,
           NEW skip \in BOOLEAN, Confirm(p, e, rev, skip)
    PROVE  rel' \in [RelIds -> Row] /\ RowInv'
  <1> DEFINE n == nrel + 1
             new == [env |-> e, rev |-> rev, state |-> "pending", exempt |-> skip]
  <1>1. /\ n \in RelIds /\ new \in Row /\ rel \in [RelIds -> Row]
        /\ nrel \in Nat /\ e # NoEnv
    BY ReleaseAssumption DEF ReleaseAssumption, Confirm, IInv, TypeOK, RelIds, Row, States
  <1>2. /\ rel' = [rel EXCEPT ![n] = new] /\ nrel' = n
        /\ UNCHANGED <<bound, applied, floor, gateway>>
    BY DEF Confirm, projection, fleet
  <1>3. /\ rel' \in [RelIds -> Row] /\ rel'[n] = new
        /\ \A i \in RelIds : i # n => rel'[i] = rel[i]
        /\ rel[n].state = "none" /\ rel[n].env = NoEnv
    BY <1>1, <1>2 DEF IInv, RowInv, RowsFilled
  <1>4. RowsFilled'
    BY <1>1, <1>2, <1>3 DEF IInv, RowInv, RowsFilled, RelIds
  <1>5. \A x \in Envs : Live(x)' = Live(x) /\ Reached(x)' = Reached(x)
    BY <1>1, <1>3 DEF Live, Reached, In, ReachedStates
  <1>6. OneLive' /\ LiveIsNewest'
    BY <1>5 DEF IInv, RowInv, OneLive, LiveIsNewest
  <1>7. WithdrawnForGood'
    BY <1>1, <1>2, <1>3 DEF IInv, RowInv, WithdrawnForGood, In, TypeOK, RelIds
  <1>8. AppliedIsLive'
    <2>1. \A i \in RelIds : rel[i].state = "converged" => rel'[i] = rel[i]
      BY <1>3
    <2>2. \A x \in Envs : Present(x)' = Present(x)
      BY <1>2 DEF Present
    <2> QED BY <1>2, <1>5, <2>1, <2>2 DEF IInv, RowInv, AppliedIsLive, Live, In
  <1> QED BY <1>3, <1>4, <1>6, <1>7, <1>8 DEF RowInv

(* The spine supersedes what was live and inserts a row that is.           *)
LEMMA SpineRows ==
    ASSUME IInv, NEW e \in Envs, NEW rev \in Revs, NEW chosen \in SUBSET Gateways,
           SpineMay(e, chosen), GoLive(e, rev, chosen),
           UNCHANGED <<floor, gateway>>
    PROVE  /\ rel' \in [RelIds -> Row] /\ RowInv'
           /\ bound' \in [Envs -> SUBSET Gateways]
           /\ applied' \in [Gateways -> Revs \cup {NoRev}]
  <1> DEFINE n == nrel + 1
             new == [env |-> e, rev |-> rev, state |-> "converged", exempt |-> TRUE]
             m == Move(e, "converged", "superseded", rel)
  <1>1. /\ n \in RelIds /\ new \in Row /\ rel \in [RelIds -> Row]
        /\ nrel \in Nat /\ e # NoEnv /\ "superseded" \in States
    BY ReleaseAssumption DEF ReleaseAssumption, GoLive, IInv, TypeOK, RelIds, Row,
       States, ReachedStates
  <1>2. /\ m \in [RelIds -> Row]
        /\ \A i \in RelIds :
              /\ m[i].env = rel[i].env /\ m[i].rev = rel[i].rev
              /\ m[i].state = IF rel[i].env = e /\ rel[i].state = "converged"
                              THEN "superseded" ELSE rel[i].state
    BY <1>1, MoveFacts
  <1>3. rel' = [m EXCEPT ![n] = new] /\ nrel' = n
    BY DEF GoLive, SpineLive
  <1> HIDE DEF m
  <1>4. /\ rel' \in [RelIds -> Row] /\ rel'[n] = new
        /\ \A i \in RelIds : i # n => rel'[i] = m[i]
        /\ rel[n].state = "none" /\ rel[n].env = NoEnv
    BY <1>1, <1>2, <1>3 DEF IInv, RowInv, RowsFilled
  <1>5. RowsFilled'
    BY <1>1, <1>2, <1>3, <1>4 DEF IInv, RowInv, RowsFilled, RelIds
  <1>6. /\ Live(e)' = {n}
        /\ Reached(e)' = Reached(e) \cup {n}
        /\ \A x \in Envs \ {e} : Live(x)' = Live(x) /\ Reached(x)' = Reached(x)
    BY <1>1, <1>2, <1>4 DEF Live, Reached, In, ReachedStates
  <1>7. \A x \in Envs : \A k \in Reached(x) : k <= nrel
    BY <1>1 DEF IInv, RowInv, RowsFilled, Reached, In, ReachedStates, RelIds
  <1>8. OneLive' /\ LiveIsNewest'
    BY <1>1, <1>6, <1>7 DEF IInv, RowInv, OneLive, LiveIsNewest, Reached, In, RelIds
  <1>9. WithdrawnForGood'
    BY <1>1, <1>2, <1>3, <1>4 DEF IInv, RowInv, WithdrawnForGood, In, TypeOK, RelIds
  <1>10. /\ bound' \in [Envs -> SUBSET Gateways] /\ bound'[e] = chosen
         /\ \A x \in Envs \ {e} : bound'[x] = bound[x]
         /\ applied' \in [Gateways -> Revs \cup {NoRev}]
         /\ \A g \in Gateways : applied'[g] =
               IF g \in chosen THEN rev
               ELSE IF EnvOf[g] = e THEN NoRev ELSE applied[g]
    BY DEF GoLive, Project, IInv, TypeOK
  <1>11. AppliedIsLive'
    <2> SUFFICES ASSUME NEW x \in Envs
                 PROVE  /\ bound'[x] \subseteq Present(x)'
                        /\ (bound'[x] = {}) <=> (Live(x)' = {})
                        /\ \A g \in Gateways : EnvOf[g] = x =>
                             \/ g \in bound'[x] /\ \E i \in Live(x)' : applied'[g] = rel'[i].rev
                             \/ g \notin bound'[x] /\ applied'[g] = NoRev
      BY DEF AppliedIsLive
    <2>0. Present(x)' = Present(x)
      BY DEF Present
    <2>1. CASE x = e
      BY <1>1, <1>4, <1>6, <1>10, <2>0, <2>1 DEF SpineMay, Present
    <2>2. CASE x # e
      <3>1. \A i \in Live(x) : i # n /\ rel'[i].rev = rel[i].rev
        BY <1>1, <1>2, <1>4, <2>2 DEF Live, In
      <3>2. \A g \in Gateways : EnvOf[g] = x => g \notin chosen
        BY <2>2 DEF SpineMay, Present
      <3> QED BY <1>6, <1>10, <2>0, <2>2, <3>1, <3>2 DEF IInv, RowInv, AppliedIsLive
    <2> QED BY <2>1, <2>2
  <1> QED BY <1>4, <1>5, <1>8, <1>9, <1>10, <1>11 DEF RowInv

(* A withdrawal leaves nothing live and nothing pending in its environment. *)
LEMMA RemoveRows ==
    ASSUME IInv, NEW j \in JobIds, job[j].state # "none", Removes(j),
           NEW e \in Envs, e = job[j].env,
           UNCHANGED <<nrel, gateway>>
    PROVE  /\ rel' \in [RelIds -> Row] /\ RowInv'
           /\ bound' \in [Envs -> SUBSET Gateways]
           /\ applied' \in [Gateways -> Revs \cup {NoRev}]
           /\ floor' \in [Envs -> 0..MaxReleases]
           /\ \A i \in RelIds : rel'[i].env = rel[i].env
  <1> DEFINE w == Move(e, "converged", "withdrawn", rel)
  <1>1. /\ rel \in [RelIds -> Row] /\ nrel \in 0..MaxReleases
        /\ "withdrawn" \in States /\ "stale" \in States
    BY DEF IInv, JobsFilled, TypeOK, States, ReachedStates
  <1>2. /\ w \in [RelIds -> Row]
        /\ \A i \in RelIds :
              /\ w[i].env = rel[i].env /\ w[i].rev = rel[i].rev
              /\ w[i].state = IF rel[i].env = e /\ rel[i].state = "converged"
                              THEN "withdrawn" ELSE rel[i].state
    <2>1. \A k \in RelIds : rel[k] \in Row
      BY <1>1
    <2> QED BY <1>1, <2>1 DEF Move, Row
  <1>3. rel' = Move(e, "pending", "stale", w)
    BY DEF Removes, TakenDown
  <1> HIDE DEF w
  <1>4. /\ rel' \in [RelIds -> Row]
        /\ \A i \in RelIds :
              /\ rel'[i].env = w[i].env /\ rel'[i].rev = w[i].rev
              /\ rel'[i].state = IF w[i].env = e /\ w[i].state = "pending"
                              THEN "stale" ELSE w[i].state
    BY <1>1, <1>2, <1>3, MoveFacts
  <1>5. RowsFilled'
    BY <1>2, <1>4 DEF IInv, RowInv, RowsFilled
  <1>6. /\ Live(e)' = {}
        /\ \A x \in Envs \ {e} : Live(x)' = Live(x)
        /\ \A x \in Envs : Reached(x)' = Reached(x)
    BY <1>2, <1>4 DEF Live, Reached, In, ReachedStates
  <1>7. OneLive' /\ LiveIsNewest'
    BY <1>1, <1>6 DEF IInv, RowInv, OneLive, LiveIsNewest
  <1>8. /\ floor' \in [Envs -> 0..MaxReleases]
        /\ \A x \in Envs : floor'[x] = IF x = e THEN nrel ELSE floor[x]
    BY <1>1 DEF Removes, IInv, TypeOK
  <1>9. WithdrawnForGood'
    <2> SUFFICES ASSUME NEW x \in Envs
                 PROVE  /\ floor'[x] <= nrel
                        /\ \A i \in In(x)' : i <= floor'[x] =>
                              rel'[i].state \notin {"converged", "pending"}
      BY DEF WithdrawnForGood
    <2>1. CASE x = e
      BY <1>1, <1>2, <1>4, <1>8, <2>1 DEF In
    <2>2. CASE x # e
      BY <1>2, <1>4, <1>8, <2>2 DEF In, IInv, RowInv, WithdrawnForGood
    <2> QED BY <2>1, <2>2
  <1>10. /\ bound' \in [Envs -> SUBSET Gateways]
         /\ \A x \in Envs : bound'[x] = IF x = e THEN {} ELSE bound[x]
         /\ applied' \in [Gateways -> Revs \cup {NoRev}]
         /\ \A g \in Gateways : applied'[g] = IF EnvOf[g] = e THEN NoRev ELSE applied[g]
    BY <1>1 DEF Removes, IInv, TypeOK
  <1>11. AppliedIsLive'
    <2>1. \A x \in Envs : Present(x)' = Present(x)
      BY DEF Present
    <2>2. \A x \in Envs \ {e} : \A i \in Live(x) : rel'[i].rev = rel[i].rev
      BY <1>2, <1>4 DEF Live, In
    <2> QED BY <1>6, <1>10, <2>1, <2>2 DEF IInv, RowInv, AppliedIsLive
  <1> QED BY <1>2, <1>4, <1>5, <1>7, <1>8, <1>9, <1>10, <1>11 DEF RowInv

(* A release that was overtaken goes stale and nothing else is written.    *)
LEMMA StaleRows ==
    ASSUME IInv, NEW j \in JobIds, job[j].state # "none", GoesStale(j),
           NEW i \in RelIds, i = job[j].release,
           UNCHANGED <<nrel, gateway>>
    PROVE  /\ rel' \in [RelIds -> Row] /\ RowInv'
           /\ \A k \in RelIds : rel'[k].env = rel[k].env
  <1>1. /\ rel \in [RelIds -> Row] /\ rel[i] \in Row
        /\ rel[i].state = "pending" /\ "stale" \in States
        /\ UNCHANGED <<bound, applied, floor>>
    BY DEF IInv, JobsFilled, TypeOK, States, GoesStale, projection
  <1>2. rel' = [rel EXCEPT ![i].state = "stale"]
    BY DEF GoesStale
  <1>3. /\ rel' \in [RelIds -> Row]
        /\ rel'[i].env = rel[i].env /\ rel'[i].rev = rel[i].rev
        /\ rel'[i].state = "stale"
        /\ \A k \in RelIds : k # i => rel'[k] = rel[k]
    BY <1>1, <1>2 DEF Row
  <1>4. RowsFilled' /\ WithdrawnForGood'
    BY <1>1, <1>3 DEF IInv, RowInv, RowsFilled, WithdrawnForGood, In
  <1>5. \A x \in Envs : Live(x)' = Live(x) /\ Reached(x)' = Reached(x)
    BY <1>1, <1>3 DEF Live, Reached, In, ReachedStates
  <1>6. OneLive' /\ LiveIsNewest'
    BY <1>5 DEF IInv, RowInv, OneLive, LiveIsNewest
  <1>7. AppliedIsLive'
    <2>1. \A x \in Envs : Present(x)' = Present(x)
      BY DEF Present
    <2>2. \A x \in Envs : \A k \in Live(x) : rel'[k].rev = rel[k].rev
      BY <1>1, <1>3 DEF Live, In
    <2> QED BY <1>1, <1>5, <2>1, <2>2 DEF IInv, RowInv, AppliedIsLive
  <1> QED BY <1>3, <1>4, <1>6, <1>7 DEF RowInv

(* A release is applied over what was live; the guard on overtaking makes  *)
(* it the newest that reached the fleet.                                   *)
LEMMA ApplyRows ==
    ASSUME IInv, NEW j \in JobIds, job[j].state # "none", Applies(j), ~Throws(j),
           NEW e \in Envs, e = job[j].env, NEW i \in RelIds, i = job[j].release,
           UNCHANGED <<nrel, gateway>>
    PROVE  /\ rel' \in [RelIds -> Row] /\ RowInv'
           /\ bound' \in [Envs -> SUBSET Gateways]
           /\ applied' \in [Gateways -> Revs \cup {NoRev}]
           /\ \A k \in RelIds : rel'[k].env = rel[k].env
  <1> DEFINE m == Move(e, "converged", "superseded", rel)
             on == IF bound[e] = {} THEN Present(e) ELSE bound[e]
  <1>1. /\ rel \in [RelIds -> Row]
        /\ rel[i].state = "pending" /\ rel[i].env \in Envs /\ rel[i].rev \in Revs
        /\ "superseded" \in States /\ "converged" \in States
        /\ UNCHANGED floor
    BY DEF IInv, RowInv, RowsFilled, JobsFilled, TypeOK, States, ReachedStates, Applies
  <1>2. rel[i].env = e
    BY <1>1, ReleaseAssumption DEF IInv, JobsFilled, ReleaseAssumption, Applies
  <1>3. /\ m \in [RelIds -> Row]
        /\ \A k \in RelIds :
              /\ m[k].env = rel[k].env /\ m[k].rev = rel[k].rev
              /\ m[k].state = IF rel[k].env = e /\ rel[k].state = "converged"
                              THEN "superseded" ELSE rel[k].state
    <2>1. \A k \in RelIds : rel[k] \in Row
      BY <1>1
    <2> QED BY <1>1, <2>1 DEF Move, Row
  <1>4. rel' = [m EXCEPT ![i].state = "converged"]
    BY DEF Applies
  <1>5. \A k \in Reached(e) : k <= i
    BY <1>1, <1>2 DEF Applies, Overtaken, Reached, In, RelIds
  <1>6. /\ bound' = [bound EXCEPT ![e] = on]
        /\ applied' = [g \in Gateways |-> IF g \in on THEN rel[i].rev ELSE applied[g]]
    BY DEF Applies
  <1>7. on # {} /\ on \subseteq Present(e)
    BY <1>1 DEF Throws, Affected, Applies, IInv, RowInv, AppliedIsLive
  <1>8. bound \in [Envs -> SUBSET Gateways] /\ applied \in [Gateways -> Revs \cup {NoRev}]
    BY DEF IInv, TypeOK
  <1>9. (bound[e] = {} => \A g \in Gateways : EnvOf[g] = e => applied[g] = NoRev)
        /\ (\A g \in Gateways : EnvOf[g] = e /\ g \notin on => applied[g] = NoRev)
    BY <1>1 DEF IInv, RowInv, AppliedIsLive
  <1> HIDE DEF m, on
  <1>10. /\ rel' \in [RelIds -> Row]
         /\ rel'[i].env = e /\ rel'[i].rev = rel[i].rev /\ rel'[i].state = "converged"
         /\ \A k \in RelIds : k # i => rel'[k] = m[k]
    <2>1. m[i] \in Row
      BY <1>1, <1>3
    <2> QED BY <1>1, <1>2, <1>3, <1>4, <2>1 DEF Row
  <1>11. RowsFilled'
    BY <1>1, <1>2, <1>3, <1>10 DEF IInv, RowInv, RowsFilled
  <1>12. /\ Live(e)' = {i}
         /\ Reached(e)' = Reached(e) \cup {i}
         /\ \A x \in Envs \ {e} : Live(x)' = Live(x) /\ Reached(x)' = Reached(x)
    BY <1>1, <1>2, <1>3, <1>10 DEF Live, Reached, In, ReachedStates
  <1>13. OneLive' /\ LiveIsNewest'
    BY <1>1, <1>5, <1>12 DEF IInv, RowInv, OneLive, LiveIsNewest, RelIds
  <1>14. WithdrawnForGood'
    BY <1>1, <1>2, <1>3, <1>10 DEF IInv, RowInv, WithdrawnForGood, In
  <1>15. AppliedIsLive'
    <2> SUFFICES ASSUME NEW x \in Envs
                 PROVE  /\ bound'[x] \subseteq Present(x)'
                        /\ (bound'[x] = {}) <=> (Live(x)' = {})
                        /\ \A g \in Gateways : EnvOf[g] = x =>
                             \/ g \in bound'[x] /\ \E k \in Live(x)' : applied'[g] = rel'[k].rev
                             \/ g \notin bound'[x] /\ applied'[g] = NoRev
      BY DEF AppliedIsLive
    <2>0. Present(x)' = Present(x)
      BY DEF Present
    <2>1. CASE x = e
      BY <1>1, <1>6, <1>7, <1>8, <1>9, <1>10, <1>12, <2>0, <2>1
    <2>2. CASE x # e
      <3>1. \A k \in Live(x) : k # i /\ rel'[k].rev = rel[k].rev
        BY <1>1, <1>2, <1>3, <1>10, <2>2 DEF Live, In
      <3>2. \A g \in Gateways : EnvOf[g] = x => g \notin on
        BY <1>7, <2>2 DEF Present
      <3> QED BY <1>1, <1>6, <1>8, <1>12, <2>0, <2>2, <3>1, <3>2
             DEF IInv, RowInv, AppliedIsLive
    <2> QED BY <2>1, <2>2
  <1>16. /\ bound' \in [Envs -> SUBSET Gateways]
         /\ applied' \in [Gateways -> Revs \cup {NoRev}]
    BY <1>1, <1>6, <1>7, <1>8 DEF Present
  <1> QED BY <1>2, <1>3, <1>10, <1>11, <1>13, <1>14, <1>15, <1>16 DEF RowInv

-----------------------------------------------------------------------------
(* A step that leaves the queue alone and no row of another environment in *)
(* the place of one a job names keeps what is known of jobs.               *)
LEMMA JobsKept ==
    ASSUME IInv, UNCHANGED <<job, njob>>, nrel' \in Nat, nrel <= nrel',
           \A i \in RelIds : i <= nrel => rel'[i].env \in {rel[i].env, NoEnv}
    PROVE  JobsFilled'
  <1>1. nrel \in Nat
    BY DEF IInv, TypeOK
  <1> QED
    BY <1>1 DEF IInv, JobsFilled, RelIds

(* A process that starts, ends or loses a pass works on no job.            *)
LEMMA PassReset ==
    ASSUME IInv, NEW p \in Processes, NEW q \in Pass,
           q.due = {}, q.step \in {"idle", "operations"},
           pass' = [pass EXCEPT ![p] = q],
           \A j \in JobIds : job[j].state # "none" => job'[j].state # "none"
    PROVE  pass' \in [Processes -> Pass] /\ PassesKnown'
  <1>1. pass \in [Processes -> Pass] /\ \A r \in Processes : pass[r].due \subseteq JobIds
    BY DEF IInv, TypeOK, Pass
  <1> QED
    BY <1>1 DEF IInv, PassesKnown

LEMMA PassValues ==
    Idle \in Pass /\ \A d \in BOOLEAN : NewPass(d) \in Pass
  BY ReleaseAssumption DEF ReleaseAssumption, Idle, NewPass, Pass

(* A pass that goes on keeps to the jobs that exist.                       *)
LEMMA PassMoved ==
    ASSUME IInv, NEW p \in Processes, NEW q \in Pass,
           \A j \in q.due : job'[j].state # "none",
           q.step \in {"taken", "done", "queued"} =>
              q.job \in JobIds /\ job'[q.job].state # "none",
           pass' = [pass EXCEPT ![p] = q],
           \A j \in JobIds : job[j].state # "none" => job'[j].state # "none"
    PROVE  pass' \in [Processes -> Pass] /\ PassesKnown'
  <1>1. pass \in [Processes -> Pass] /\ \A r \in Processes : pass[r].due \subseteq JobIds
    BY DEF IInv, TypeOK, Pass
  <1> QED
    BY <1>1 DEF IInv, PassesKnown

(* A job is put at the end of the queue.                                   *)
LEMMA Enqueued ==
    ASSUME IInv, NEW intent \in {"apply", "remove"}, NEW e \in Envs,
           NEW release \in 0..MaxReleases, njob < MaxJobs,
           njob' = njob + 1,
           job' = [job EXCEPT ![njob + 1] = NewJob(intent, e, release)],
           nrel' \in Nat, nrel <= nrel',
           \A i \in RelIds : i <= nrel => rel'[i].env = rel[i].env,
           intent = "apply" =>
              release \in RelIds /\ release <= nrel' /\ rel'[release].env = e
    PROVE  /\ job' \in [JobIds -> Job] /\ njob' \in 0..MaxJobs /\ JobsFilled'
           /\ \A j \in JobIds : job[j].state # "none" => job'[j].state # "none"
  <1>1. /\ njob \in Nat /\ MaxJobs \in Nat /\ njob + 1 \in JobIds
        /\ job \in [JobIds -> Job] /\ nrel \in 0..MaxReleases
    BY ReleaseAssumption DEF ReleaseAssumption, IInv, TypeOK, JobIds
  <1>2. NewJob(intent, e, release) \in Job
    BY <1>1 DEF NewJob, Job
  <1>3. /\ job' \in [JobIds -> Job]
        /\ job'[njob + 1] = NewJob(intent, e, release)
        /\ \A j \in JobIds : j # njob + 1 => job'[j] = job[j]
    BY <1>1, <1>2
  <1>4. njob' \in 0..MaxJobs
    BY <1>1
  <1>5. \A j \in JobIds : job[j].state # "none" => job'[j].state # "none"
    BY <1>3 DEF NewJob
  <1>6. JobsFilled'
    <2> SUFFICES ASSUME NEW j \in JobIds
                 PROVE  /\ j > njob' => job'[j].state = "none"
                        /\ job'[j].state # "none" => job'[j].env \in Envs
                        /\ job'[j].state # "none" /\ job'[j].intent = "apply" =>
                              /\ job'[j].release \in RelIds /\ job'[j].release <= nrel'
                              /\ rel'[job'[j].release].env \in {job'[j].env, NoEnv}
      BY DEF JobsFilled
    <2>1. CASE j = njob + 1
      BY <1>1, <1>3, <2>1 DEF NewJob
    <2>2. CASE j # njob + 1
      BY <1>1, <1>3, <2>2 DEF IInv, JobsFilled, RelIds, JobIds
    <2> QED BY <2>1, <2>2
  <1> QED BY <1>3, <1>4, <1>5, <1>6

-----------------------------------------------------------------------------
(* One lemma per action: the action keeps the inductive invariant.         *)
LEMMA ConfirmIInv ==
    ASSUME IInv, NEW p \in Processes, NEW e \in Envs, NEW rev \in Revs,
           NEW skip \in BOOLEAN, Confirm(p, e, rev, skip)
    PROVE  IInv'
  <1>1. /\ nrel \in Nat /\ nrel + 1 \in RelIds /\ nrel' = nrel + 1
        /\ rel \in [RelIds -> Row]
    BY ReleaseAssumption DEF ReleaseAssumption, IInv, TypeOK, Confirm, RelIds
  <1>2. rel' \in [RelIds -> Row] /\ RowInv'
    BY ConfirmRows
  <1>3. /\ rel'[nrel + 1].env = e
        /\ \A i \in RelIds : i <= nrel => rel'[i].env = rel[i].env
    BY <1>1 DEF Confirm, RelIds
  <1>4. /\ job' \in [JobIds -> Job] /\ njob' \in 0..MaxJobs /\ JobsFilled'
        /\ \A j \in JobIds : job[j].state # "none" => job'[j].state # "none"
    <2>1. PICK r \in 0..MaxReleases : r = nrel + 1
      BY <1>1 DEF RelIds
    <2>2. /\ njob < MaxJobs /\ njob' = njob + 1
          /\ job' = [job EXCEPT ![njob + 1] = NewJob("apply", e, r)]
      BY <2>1 DEF Confirm
    <2>3. nrel' \in Nat /\ nrel <= nrel' /\ r \in RelIds /\ r <= nrel' /\ rel'[r].env = e
      BY <1>1, <1>3, <2>1
    <2> QED BY <1>3, <2>2, <2>3, Enqueued
  <1>5. pass' \in [Processes -> Pass] /\ PassesKnown'
    BY <1>4, PassReset, PassValues DEF Confirm, NewPass
  <1>6. TypeOK'
    <2>1. nrel' \in 0..MaxReleases
      BY <1>1 DEF RelIds
    <2>2. UNCHANGED <<gateway, bound, applied, unbuildable, alive, floor>>
      BY DEF Confirm, projection, fleet
    <2> QED BY <1>2, <1>4, <1>5, <2>1, <2>2 DEF IInv, TypeOK
  <1> QED BY <1>2, <1>4, <1>5, <1>6 DEF IInv

LEMMA WithdrawIInv ==
    ASSUME IInv, NEW p \in Processes, NEW e \in Envs, Withdraw(p, e)
    PROVE  IInv'
  <1>1. /\ UNCHANGED <<rel, nrel, bound, applied, gateway, unbuildable, alive, floor>>
        /\ njob < MaxJobs /\ njob' = njob + 1
        /\ job' = [job EXCEPT ![njob + 1] = NewJob("remove", e, 0)]
        /\ pass' = [pass EXCEPT ![p] = NewPass(FALSE)]
    BY DEF Withdraw, rows, projection, fleet
  <1>2. RowInv'
    BY <1>1, RowsKept
  <1>3. nrel \in Nat /\ 0 \in 0..MaxReleases
    BY ReleaseAssumption DEF ReleaseAssumption, IInv, TypeOK
  <1>4. /\ job' \in [JobIds -> Job] /\ njob' \in 0..MaxJobs /\ JobsFilled'
        /\ \A j \in JobIds : job[j].state # "none" => job'[j].state # "none"
    <2>1. PICK r \in 0..MaxReleases : r = 0
      BY <1>3
    <2>2. job' = [job EXCEPT ![njob + 1] = NewJob("remove", e, r)]
      BY <1>1, <2>1
    <2>3. nrel' \in Nat /\ nrel <= nrel' /\ rel' = rel
      BY <1>1, <1>3
    <2> QED BY <1>1, <2>2, <2>3, Enqueued
  <1>5. pass' \in [Processes -> Pass] /\ PassesKnown'
    BY <1>1, <1>4, PassReset, PassValues DEF NewPass
  <1>6. TypeOK'
    BY <1>1, <1>4, <1>5 DEF IInv, TypeOK
  <1> QED BY <1>2, <1>4, <1>5, <1>6 DEF IInv

LEMMA DeleteResourceIInv ==
    ASSUME IInv, NEW p \in Processes, DeleteResource(p)
    PROVE  IInv'
  <1>1. /\ UNCHANGED <<rel, nrel, bound, applied, gateway, unbuildable, alive, floor>>
        /\ pass' = [pass EXCEPT ![p] = NewPass(TRUE)]
    BY DEF DeleteResource, rows, projection, fleet
  <1>2. RowInv'
    BY <1>1, RowsKept
  <1>a. PICK n \in 0..(MaxJobs - njob) : \E order \in [1..n -> Gateways] :
          /\ njob' = njob + n
          /\ job' = [j \in JobIds |->
                        IF j - njob \in 1..n
                        THEN NewJob("remove", EnvOf[order[j - njob]], 0)
                        ELSE job[j]]
    <2>1. PICK n \in 0..(MaxJobs - njob) :
            \E order \in [1..n -> {g \in Gateways : gateway[g] # "absent"}] :
              /\ njob' = njob + n
              /\ job' = [j \in JobIds |->
                            IF j - njob \in 1..n
                            THEN NewJob("remove", EnvOf[order[j - njob]], 0)
                            ELSE job[j]]
      BY DEF DeleteResource
    <2>2. [1..n -> {g \in Gateways : gateway[g] # "absent"}] \subseteq [1..n -> Gateways]
      OBVIOUS
    <2> QED BY <2>1, <2>2
  <1>3. PICK order \in [1..n -> Gateways] :
          /\ njob' = njob + n
          /\ job' = [j \in JobIds |->
                        IF j - njob \in 1..n
                        THEN NewJob("remove", EnvOf[order[j - njob]], 0)
                        ELSE job[j]]
    BY <1>a
  <1>4. /\ nrel \in 0..MaxReleases /\ njob \in 0..MaxJobs /\ MaxJobs \in Nat
        /\ job \in [JobIds -> Job] /\ EnvOf \in [Gateways -> Envs]
    BY ReleaseAssumption DEF ReleaseAssumption, IInv, TypeOK
  <1>5. \A k \in 1..n : /\ NewJob("remove", EnvOf[order[k]], 0) \in Job
                        /\ EnvOf[order[k]] \in Envs
    BY <1>4, ReleaseAssumption DEF ReleaseAssumption, NewJob, Job
  <1>6. \A j \in JobIds :
          \/ job'[j] = job[j] /\ (j <= njob \/ j > njob + n)
          \/ /\ j - njob \in 1..n /\ job'[j] \in Job /\ job'[j].env \in Envs
             /\ job'[j].intent = "remove" /\ job'[j].state = "queued"
    BY <1>3, <1>4, <1>5 DEF NewJob, JobIds
  <1>7. job' \in [JobIds -> Job] /\ njob' \in 0..MaxJobs
    BY <1>3, <1>4, <1>5
  <1>8. JobsFilled'
    <2>1. SUFFICES ASSUME NEW j \in JobIds
                   PROVE  /\ j > njob' => job'[j].state = "none"
                          /\ job'[j].state # "none" => job'[j].env \in Envs
                          /\ job'[j].state # "none" /\ job'[j].intent = "apply" =>
                                /\ job'[j].release \in RelIds /\ job'[j].release <= nrel
                                /\ rel[job'[j].release].env \in {job'[j].env, NoEnv}
      BY <1>1 DEF JobsFilled
    <2>2. j \in Nat /\ n \in Nat /\ njob \in Nat
      BY <1>4 DEF JobIds
    <2>3. CASE job'[j] = job[j] /\ (j <= njob \/ j > njob + n)
      <3>1. j > njob' => j > njob
        BY <1>3, <2>2
      <3> QED BY <2>3, <3>1 DEF IInv, JobsFilled
    <2>4. CASE /\ j - njob \in 1..n /\ job'[j].env \in Envs
               /\ job'[j].intent = "remove" /\ job'[j].state = "queued"
      <3>1. ~(j > njob')
        BY <1>3, <2>2, <2>4
      <3> QED BY <2>4, <3>1
    <2> QED BY <1>6, <2>3, <2>4
  <1>9. \A j \in JobIds : job[j].state # "none" => job'[j].state # "none"
    BY <1>6
  <1>10. pass' \in [Processes -> Pass] /\ PassesKnown'
    BY <1>1, <1>9, PassReset, PassValues DEF NewPass
  <1>11. TypeOK'
    BY <1>1, <1>7, <1>10 DEF IInv, TypeOK
  <1> QED BY <1>2, <1>8, <1>10, <1>11 DEF IInv

(* A pass that starts or is lost, and what happens to gateways and         *)
(* obstacles, writes no row and no job.                                    *)
LEMMA TickIInv ==
    ASSUME IInv, NEW p \in Processes, Tick(p) \/ Crash(p)
    PROVE  IInv'
  <1>1. UNCHANGED <<rel, nrel, job, njob, bound, applied, gateway, unbuildable, alive, floor>>
    BY DEF Tick, Crash, rows, queue, projection, fleet
  <1>2. PICK q \in Pass : /\ q.due = {} /\ q.step \in {"idle", "operations"}
                          /\ pass' = [pass EXCEPT ![p] = q]
    BY PassValues DEF Tick, Crash, Idle, NewPass
  <1>3. pass' \in [Processes -> Pass] /\ PassesKnown'
    BY <1>1, <1>2, PassReset
  <1>4. nrel \in Nat
    BY DEF IInv, TypeOK
  <1>5. RowInv' /\ JobsFilled'
    BY <1>1, <1>4, RowsKept, JobsKept
  <1>6. TypeOK'
    BY <1>1, <1>3 DEF IInv, TypeOK
  <1> QED BY <1>3, <1>5, <1>6 DEF IInv

LEMMA GatewayIInv ==
    ASSUME IInv, NEW p \in Processes, NEW g \in Gateways,
           CreateGateway(p, g) \/ DeleteGateway(p, g) \/ SetPaused(p, g)
    PROVE  IInv'
  <1>1. UNCHANGED <<rel, nrel, job, njob, bound, unbuildable, alive, pass, floor>>
    BY DEF CreateGateway, DeleteGateway, SetPaused, rows, queue, projection
  <1>2. /\ gateway \in [Gateways -> {"absent", "open", "paused"}] /\ nrel \in Nat
        /\ applied \in [Gateways -> Revs \cup {NoRev}]
    BY DEF IInv, TypeOK
  <1>3. UNCHANGED applied
    <2>1. CASE CreateGateway(p, g) \/ SetPaused(p, g)
      BY <2>1 DEF CreateGateway, SetPaused, projection
    <2>2. CASE DeleteGateway(p, g)
      <3>1. applied[g] = NoRev
        BY <2>2, ReleaseAssumption
           DEF ReleaseAssumption, DeleteGateway, IInv, RowInv, AppliedIsLive
      <3> QED BY <1>2, <2>2, <3>1 DEF DeleteGateway
    <2> QED BY <2>1, <2>2
  <1>4. /\ gateway' \in [Gateways -> {"absent", "open", "paused"}]
        /\ \A h \in Gateways : gateway'[h] = "absent" =>
              gateway[h] = "absent" \/ h \notin bound[EnvOf[h]]
    BY <1>2 DEF CreateGateway, DeleteGateway, SetPaused
  <1>5. RowInv' /\ JobsFilled'
    BY <1>1, <1>2, <1>3, <1>4, RowsKept, JobsKept
  <1>6. TypeOK' /\ PassesKnown'
    BY <1>1, <1>3, <1>4 DEF IInv, TypeOK, PassesKnown
  <1> QED BY <1>5, <1>6 DEF IInv

LEMMA ObstructIInv ==
    ASSUME IInv, NEW p \in Processes, NEW e \in Envs, Obstruct(p, e)
    PROVE  IInv'
  <1>1. UNCHANGED <<rel, nrel, job, njob, bound, applied, gateway, alive, pass, floor>>
    BY DEF Obstruct, rows, queue, projection
  <1>2. unbuildable' \subseteq Envs /\ nrel \in Nat
    BY DEF Obstruct, IInv, TypeOK
  <1>3. RowInv' /\ JobsFilled'
    BY <1>1, <1>2, RowsKept, JobsKept
  <1>4. TypeOK' /\ PassesKnown'
    BY <1>1, <1>2 DEF IInv, TypeOK, PassesKnown
  <1> QED BY <1>3, <1>4 DEF IInv

LEMMA SpineWritesIInv ==
    ASSUME IInv, NEW p \in Processes, SpineWrites(p)
    PROVE  IInv'
  <1>1. UNCHANGED <<job, njob, gateway, unbuildable, alive, pass, floor>>
    BY DEF SpineWrites, queue, fleet
  <1>2. PICK e \in Envs, rev \in Revs, chosen \in SUBSET Gateways :
          SpineMay(e, chosen) /\ GoLive(e, rev, chosen)
    BY DEF SpineWrites
  <1>3. /\ rel' \in [RelIds -> Row] /\ RowInv'
        /\ bound' \in [Envs -> SUBSET Gateways]
        /\ applied' \in [Gateways -> Revs \cup {NoRev}]
    BY <1>1, <1>2, SpineRows
  <1>4. /\ nrel \in Nat /\ nrel' = nrel + 1 /\ nrel' \in 0..MaxReleases
        /\ rel \in [RelIds -> Row] /\ "superseded" \in States
    BY <1>2, ReleaseAssumption
       DEF ReleaseAssumption, GoLive, IInv, TypeOK, States, ReachedStates
  <1>5. \A i \in RelIds : i <= nrel => rel'[i].env = rel[i].env
    <2>1. \A i \in RelIds : Move(e, "converged", "superseded", rel)[i].env = rel[i].env
      BY <1>4, MoveFacts
    <2>2. Move(e, "converged", "superseded", rel) \in [RelIds -> Row]
      BY <1>4, MoveFacts
    <2>3. \A i \in RelIds : i # nrel + 1 =>
             rel'[i] = Move(e, "converged", "superseded", rel)[i]
      BY <1>2, <2>2 DEF GoLive, SpineLive
    <2> QED BY <1>4, <2>1, <2>3 DEF RelIds
  <1>6. JobsFilled'
    BY <1>1, <1>4, <1>5, JobsKept
  <1>7. TypeOK' /\ PassesKnown'
    BY <1>1, <1>3, <1>4 DEF IInv, TypeOK, PassesKnown
  <1> QED BY <1>3, <1>6, <1>7 DEF IInv

(* The queue's own steps change a job's state and whether it was tried.    *)
LEMMA JobStateChanged ==
    ASSUME IInv, UNCHANGED <<rel, nrel, njob>>, job' \in [JobIds -> Job],
           \A j \in JobIds :
              /\ job'[j].env = job[j].env /\ job'[j].release = job[j].release
              /\ job'[j].intent = job[j].intent
              /\ (job'[j].state = "none") <=> (job[j].state = "none")
    PROVE  JobsFilled'
  BY DEF IInv, JobsFilled

LEMMA SelectJobsIInv ==
    ASSUME IInv, NEW p \in Processes, SelectJobs(p)
    PROVE  IInv'
  <1>1. UNCHANGED <<rel, nrel, njob, bound, applied, gateway, unbuildable, alive, floor>>
    BY DEF SelectJobs, rows, projection, fleet
  <1>2. job \in [JobIds -> Job] /\ pass \in [Processes -> Pass]
    BY DEF IInv, TypeOK
  <1>3. PICK stuck \in SUBSET Stuck, due \in SUBSET JobIds :
          /\ job' = [j \in JobIds |->
                IF j \in stuck THEN [job[j] EXCEPT !.state = "queued"] ELSE job[j]]
          /\ \A j \in due : job'[j].state = "queued"
          /\ pass' = [pass EXCEPT ![p].step = "jobs", ![p].due = due]
    BY DEF SelectJobs
  <1>4. \A j \in JobIds : job[j] \in Job
    BY <1>2
  <1>5. /\ job' \in [JobIds -> Job]
        /\ \A j \in JobIds :
              /\ job'[j].env = job[j].env /\ job'[j].release = job[j].release
              /\ job'[j].intent = job[j].intent
              /\ (job'[j].state = "none") <=> (job[j].state = "none")
    BY <1>3, <1>4 DEF Job, Stuck
  <1>6. JobsFilled'
    BY <1>1, <1>5, JobStateChanged
  <1>7. pass' \in [Processes -> Pass] /\ PassesKnown'
    <2>1. pass[p] \in Pass
      BY <1>2
    <2>2. PICK q \in Pass : q = [pass[p] EXCEPT !.step = "jobs", !.due = due]
      BY <2>1 DEF Pass
    <2>3. q.due = due /\ q.step = "jobs"
      BY <2>1, <2>2 DEF Pass
    <2>4. pass' = [pass EXCEPT ![p] = q]
      BY <1>2, <1>3, <2>2
    <2> QED BY <1>3, <1>5, <2>3, <2>4, PassMoved
  <1>8. RowInv'
    BY <1>1, RowsKept
  <1>9. TypeOK'
    BY <1>1, <1>5, <1>7 DEF IInv, TypeOK
  <1> QED BY <1>6, <1>7, <1>8, <1>9 DEF IInv

LEMMA TakeJobIInv ==
    ASSUME IInv, NEW p \in Processes, TakeJob(p)
    PROVE  IInv'
  <1>1. UNCHANGED <<rel, nrel, njob, bound, applied, gateway, unbuildable, alive, floor>>
    BY DEF TakeJob, rows, projection, fleet
  <1>2. job \in [JobIds -> Job] /\ pass \in [Processes -> Pass] /\ pass[p] \in Pass
    BY DEF IInv, TypeOK
  <1>3. PICK j \in pass[p].due :
          /\ job' = [job EXCEPT ![j].state = "running"]
          /\ pass' = [pass EXCEPT ![p].step = "taken", ![p].job = j,
                                  ![p].due = @ \ {j}]
    BY DEF TakeJob
  <1>4. j \in JobIds /\ job[j] \in Job /\ job[j].state # "none"
    BY <1>2, <1>3 DEF IInv, PassesKnown, Pass
  <1>5. /\ job' \in [JobIds -> Job]
        /\ \A k \in JobIds :
              /\ job'[k].env = job[k].env /\ job'[k].release = job[k].release
              /\ job'[k].intent = job[k].intent
              /\ (job'[k].state = "none") <=> (job[k].state = "none")
    BY <1>2, <1>3, <1>4 DEF Job
  <1>6. JobsFilled'
    BY <1>1, <1>5, JobStateChanged
  <1>7. pass' \in [Processes -> Pass] /\ PassesKnown'
    <2>1. PICK q \in Pass :
            q = [pass[p] EXCEPT !.step = "taken", !.job = j, !.due = pass[p].due \ {j}]
      <3>1. j \in 0..MaxJobs
        BY <1>4, ReleaseAssumption DEF JobIds, ReleaseAssumption
      <3> QED BY <1>2, <3>1 DEF Pass
    <2>2. q.due = pass[p].due \ {j} /\ q.step = "taken" /\ q.job = j
      BY <1>2, <2>1 DEF Pass
    <2>3. pass' = [pass EXCEPT ![p] = q]
      BY <1>2, <1>3, <2>1
    <2>4. \A k \in q.due : k \in JobIds /\ job'[k].state # "none"
      BY <1>2, <1>5, <2>2 DEF IInv, PassesKnown, Pass
    <2> QED BY <1>4, <1>5, <2>2, <2>3, <2>4, PassMoved
  <1>8. RowInv'
    BY <1>1, RowsKept
  <1>9. TypeOK'
    BY <1>1, <1>5, <1>7 DEF IInv, TypeOK
  <1> QED BY <1>6, <1>7, <1>8, <1>9 DEF IInv

LEMMA MarkJobIInv ==
    ASSUME IInv, NEW p \in Processes, MarkJob(p)
    PROVE  IInv'
  <1>1. UNCHANGED <<rel, nrel, njob, bound, applied, gateway, unbuildable, alive, floor>>
    BY DEF MarkJob, rows, projection, fleet
  <1>2. job \in [JobIds -> Job] /\ pass \in [Processes -> Pass] /\ pass[p] \in Pass
    BY DEF IInv, TypeOK
  <1>3. PICK j \in JobIds : j = pass[p].job /\ job[j] \in Job /\ job[j].state # "none"
    BY <1>2 DEF MarkJob, IInv, PassesKnown
  <1>4. PICK s \in {"done", "queued"} :
          /\ job' = [job EXCEPT ![j].state = s, ![j].tried = TRUE]
          /\ pass' = [pass EXCEPT ![p].step = "jobs", ![p].job = 0]
    BY <1>3 DEF MarkJob
  <1>5. /\ job' \in [JobIds -> Job]
        /\ \A k \in JobIds :
              /\ job'[k].env = job[k].env /\ job'[k].release = job[k].release
              /\ job'[k].intent = job[k].intent
              /\ (job'[k].state = "none") <=> (job[k].state = "none")
    BY <1>2, <1>3, <1>4 DEF Job
  <1>6. JobsFilled'
    BY <1>1, <1>5, JobStateChanged
  <1>7. pass' \in [Processes -> Pass] /\ PassesKnown'
    <2>1. PICK q \in Pass : q = [pass[p] EXCEPT !.step = "jobs", !.job = 0]
      <3>1. 0 \in 0..MaxJobs
        BY ReleaseAssumption DEF ReleaseAssumption
      <3> QED BY <1>2, <3>1 DEF Pass
    <2>2. q.due = pass[p].due /\ q.step = "jobs"
      BY <1>2, <2>1 DEF Pass
    <2>3. pass' = [pass EXCEPT ![p] = q]
      BY <1>2, <1>4, <2>1
    <2>4. \A k \in q.due : k \in JobIds /\ job'[k].state # "none"
      BY <1>2, <1>5, <2>2 DEF IInv, PassesKnown, Pass
    <2> QED BY <1>5, <2>2, <2>3, <2>4, PassMoved
  <1>8. RowInv'
    BY <1>1, RowsKept
  <1>9. TypeOK'
    BY <1>1, <1>5, <1>7 DEF IInv, TypeOK
  <1> QED BY <1>6, <1>7, <1>8, <1>9 DEF IInv

LEMMA EndPassIInv ==
    ASSUME IInv, NEW p \in Processes, EndPass(p)
    PROVE  IInv'
  <1>1. /\ UNCHANGED <<nrel, job, njob, gateway, unbuildable, floor>>
        /\ pass' = [pass EXCEPT ![p] = Idle] /\ nrel \in Nat
        /\ floor \in [Envs -> 0..MaxReleases]
    BY DEF EndPass, queue, fleet, IInv, TypeOK
  <1>2. pass' \in [Processes -> Pass] /\ PassesKnown'
    BY <1>1, PassReset, PassValues DEF Idle
  <1>3. CASE pass[p].delete
    <2>1. /\ rel' = [i \in RelIds |-> NoRow] /\ bound' = [e \in Envs |-> {}]
          /\ applied' = [g \in Gateways |-> NoRev] /\ alive' = FALSE
      BY <1>3 DEF EndPass
    <2>2. NoRow \in Row /\ \A i \in RelIds : rel'[i] = NoRow
      BY <2>1 DEF NoRow, Row, States
    <2>3. \A e \in Envs : Live(e)' = {} /\ Reached(e)' = {} /\ In(e)' = {}
      BY <2>2, ReleaseAssumption
         DEF Live, Reached, In, NoRow, ReachedStates, ReleaseAssumption
    <2>4. RowInv'
      <3>1. RowsFilled' /\ OneLive' /\ LiveIsNewest'
        BY <2>2, <2>3 DEF RowsFilled, OneLive, LiveIsNewest, NoRow
      <3>2. WithdrawnForGood'
        BY <1>1, <2>3 DEF WithdrawnForGood, IInv, RowInv
      <3>3. AppliedIsLive'
        BY <2>1, <2>3, ReleaseAssumption DEF AppliedIsLive, ReleaseAssumption
      <3> QED BY <3>1, <3>2, <3>3 DEF RowInv
    <2>5. JobsFilled'
      <3>1. \A i \in RelIds : rel'[i].env = NoEnv
        BY <2>2 DEF NoRow
      <3>2. \A i \in RelIds : i <= nrel => rel'[i].env \in {rel[i].env, NoEnv}
        BY <3>1
      <3> QED BY <1>1, <3>2, JobsKept
    <2>6. TypeOK'
      <3>1. rel' \in [RelIds -> Row] /\ bound' \in [Envs -> SUBSET Gateways]
            /\ applied' \in [Gateways -> Revs \cup {NoRev}]
        BY <2>1, <2>2
      <3>2. alive' \in BOOLEAN
        BY <2>1
      <3> QED BY <1>1, <1>2, <3>1, <3>2 DEF IInv, TypeOK
    <2> QED BY <1>2, <2>4, <2>5, <2>6 DEF IInv
  <1>4. CASE ~pass[p].delete
    <2>1. UNCHANGED <<rel, bound, applied, alive>>
      BY <1>4 DEF EndPass, projection
    <2>2. RowInv' /\ JobsFilled'
      BY <1>1, <2>1, RowsKept, JobsKept
    <2>3. TypeOK'
      BY <1>1, <1>2, <2>1 DEF IInv, TypeOK
    <2> QED BY <1>2, <2>2, <2>3 DEF IInv
  <1> QED BY <1>3, <1>4

(* The transaction of a job; one step per way through it.                  *)
LEMMA ReconcileIInv ==
    ASSUME IInv, NEW p \in Processes, Reconcile(p)
    PROVE  IInv'
  <1>1. UNCHANGED <<nrel, job, njob, gateway, unbuildable, alive>> /\ nrel \in Nat
    BY DEF Reconcile, queue, fleet, IInv, TypeOK
  <1>2. PICK j \in JobIds : j = pass[p].job /\ job[j].state # "none"
    BY DEF Reconcile, IInv, PassesKnown
  <1>3. pass' \in [Processes -> Pass] /\ PassesKnown'
    <2>1. pass \in [Processes -> Pass] /\ pass[p] \in Pass
      BY DEF IInv, TypeOK
    <2>2. PICK s \in {"done", "queued"} : pass' = [pass EXCEPT ![p].step = s]
      BY DEF Reconcile
    <2>3. PICK q \in Pass : q = [pass[p] EXCEPT !.step = s]
      BY <2>1 DEF Pass
    <2>4. q.due = pass[p].due /\ q.step = s /\ q.job = pass[p].job
      BY <2>1, <2>3 DEF Pass
    <2>5. pass' = [pass EXCEPT ![p] = q]
      BY <2>1, <2>2, <2>3
    <2>6. \A k \in q.due : job'[k].state # "none"
      BY <1>1, <2>1, <2>4 DEF IInv, PassesKnown
    <2>7. q.job \in JobIds /\ job'[q.job].state # "none"
      BY <1>1, <1>2, <2>4
    <2> QED BY <1>1, <2>5, <2>6, <2>7, PassMoved
  <1>4. \/ Removes(j) /\ ~Throws(j)
        \/ GoesStale(j)
        \/ Applies(j) /\ ~Throws(j)
        \/ UNCHANGED <<rel, bound, applied, floor>>
    <2>1. \/ (Gone(j) \/ ~Throws(j)) /\
               (Removes(j) \/ GoesStale(j) \/ Applies(j) \/ Replayed(j))
          \/ Retried(j)
      BY <1>2 DEF Reconcile
    <2>2. Gone(j) => ~Removes(j) /\ ~Applies(j)
      BY DEF Gone, Removes, Applies
    <2>3. Replayed(j) \/ Retried(j) => UNCHANGED <<rel, bound, applied, floor>>
      BY DEF Replayed, Retried, projection
    <2> QED BY <2>1, <2>2, <2>3
  <1>5. PICK e \in Envs : e = job[j].env
    BY <1>2 DEF IInv, JobsFilled
  <1>6. /\ rel' \in [RelIds -> Row] /\ RowInv'
        /\ bound' \in [Envs -> SUBSET Gateways]
        /\ applied' \in [Gateways -> Revs \cup {NoRev}]
        /\ floor' \in [Envs -> 0..MaxReleases]
        /\ \A i \in RelIds : rel'[i].env = rel[i].env
    <2>1. CASE Removes(j)
      BY <1>1, <1>2, <1>5, <2>1, RemoveRows
    <2>2. CASE GoesStale(j)
      <3>1. PICK i \in RelIds : i = job[j].release
        BY <1>2, <2>2 DEF GoesStale, IInv, JobsFilled
      <3>2. UNCHANGED <<bound, applied, floor>>
        BY <2>2 DEF GoesStale, projection
      <3>3. /\ rel' \in [RelIds -> Row] /\ RowInv'
            /\ \A k \in RelIds : rel'[k].env = rel[k].env
        BY <1>1, <1>2, <2>2, <3>1, StaleRows
      <3> QED BY <3>2, <3>3 DEF IInv, TypeOK
    <2>3. CASE Applies(j) /\ ~Throws(j)
      <3>1. PICK i \in RelIds : i = job[j].release
        BY <1>2, <2>3 DEF Applies, IInv, JobsFilled
      <3>2. UNCHANGED floor
        BY <2>3 DEF Applies
      <3>3. /\ rel' \in [RelIds -> Row] /\ RowInv'
            /\ bound' \in [Envs -> SUBSET Gateways]
            /\ applied' \in [Gateways -> Revs \cup {NoRev}]
            /\ \A k \in RelIds : rel'[k].env = rel[k].env
        BY <1>1, <1>2, <1>5, <2>3, <3>1, ApplyRows
      <3> QED BY <3>2, <3>3 DEF IInv, TypeOK
    <2>4. CASE UNCHANGED <<rel, bound, applied, floor>>
      <3>1. RowInv'
        BY <1>1, <2>4, RowsKept
      <3> QED BY <2>4, <3>1 DEF IInv, TypeOK
    <2> QED BY <1>4, <2>1, <2>2, <2>3, <2>4
  <1>7. JobsFilled'
    BY <1>1, <1>6, JobsKept
  <1>8. TypeOK'
    BY <1>1, <1>3, <1>6 DEF IInv, TypeOK
  <1> QED BY <1>3, <1>6, <1>7, <1>8 DEF IInv

LEMMA NextIInv == IInv /\ [Next]_releaseVars => IInv'
  <1> SUFFICES ASSUME IInv, [Next]_releaseVars PROVE IInv' OBVIOUS
  <1>1. CASE UNCHANGED releaseVars
    <2>1. UNCHANGED <<rel, nrel, job, njob, gateway, bound, applied, unbuildable,
                      alive, pass, floor>>
      BY <1>1 DEF releaseVars, rows, queue, projection, fleet
    <2>2. nrel \in Nat
      BY DEF IInv, TypeOK
    <2>3. RowInv' /\ JobsFilled'
      BY <2>1, <2>2, RowsKept, JobsKept
    <2> QED BY <2>1, <2>3 DEF IInv, TypeOK, PassesKnown
  <1>2. CASE Next
    <2>1. PICK p \in Processes :
             Handlers(p) \/ Tick(p) \/ SpineWrites(p) \/ Runner(p) \/ Crash(p)
      BY <1>2 DEF Next
    <2>2. CASE Handlers(p)
      BY <2>2, ConfirmIInv, WithdrawIInv, DeleteResourceIInv, GatewayIInv, ObstructIInv
         DEF Handlers
    <2>3. CASE Runner(p)
      BY <2>3, SelectJobsIInv, TakeJobIInv, ReconcileIInv, MarkJobIInv, EndPassIInv
         DEF Runner
    <2> QED BY <2>1, <2>2, <2>3, TickIInv, SpineWritesIInv
  <1> QED BY <1>1, <1>2

LEMMA Invariance == Spec => []IInv
  BY InitIInv, NextIInv, PTL DEF Spec

-----------------------------------------------------------------------------
(* Every state of the promotion state machine is well typed.               *)
THEOREM TypeCorrect == Spec => []TypeOK
  BY Invariance, PTL DEF IInv

(* The unique index release_live is never tripped.                         *)
THEOREM OneLiveRelease == Spec => []OneLive
  <1>1. IInv => OneLive
    BY DEF IInv, RowInv
  <1> QED BY <1>1, Invariance, PTL

(* No older release overtakes a newer one (the guard on state and rowid in *)
(* reconcile), whatever is retried, replayed or run by two processes.      *)
THEOREM NewestIsLive == Spec => []LiveIsNewest
  <1>1. IInv => LiveIsNewest
    BY DEF IInv, RowInv
  <1> QED BY <1>1, Invariance, PTL

(* A release that existed when the API was withdrawn from its environment  *)
(* never goes live there again.                                            *)
THEOREM WithdrawalFinal == Spec => []WithdrawalWins
  <1>1. IInv => WithdrawalWins
    <2> SUFFICES ASSUME IInv, NEW e \in Envs, NEW i \in Live(e) PROVE i > floor[e]
      BY DEF WithdrawalWins
    <2>1. i \in Nat /\ floor[e] \in Nat
      BY DEF Live, In, RelIds, IInv, TypeOK
    <2>2. ~(i <= floor[e])
      BY DEF IInv, RowInv, WithdrawnForGood, Live
    <2> QED BY <2>1, <2>2
  <1> QED BY <1>1, Invariance, PTL

(* The projection the poll is answered from (route_gateway and applied)    *)
(* says the live revision on exactly the gateways the API is bound to.     *)
THEOREM ProjectionTrue == Spec => []AppliedIsLive
  <1>1. IInv => AppliedIsLive
    BY DEF IInv, RowInv
  <1> QED BY <1>1, Invariance, PTL

-----------------------------------------------------------------------------
(* What Move does to a row is a step of its history.                       *)
LEMMA MoveHistory ==
    ASSUME NEW e, NEW from, NEW to, NEW r \in [RelIds -> Row], NEW i \in RelIds
    PROVE  \/ Move(e, from, to, r)[i] = r[i]
           \/ /\ r[i].state = from /\ Move(e, from, to, r)[i].state = to
              /\ Move(e, from, to, r)[i] = [r[i] EXCEPT !.state = to]
  <1>1. r[i] \in Row
    OBVIOUS
  <1> QED BY <1>1 DEF Move, Row

(* A row is left alone, inserted (through the gate, or exempt from it) or  *)
(* moves on.                                                               *)
Erased == rel' = [i \in RelIds |-> NoRow] /\ ~alive'
Forward(i) ==
    \/ rel'[i] = rel[i]
    \/ /\ rel[i].state = "none" /\ rel'[i].state \in {"pending", "converged"}
       /\ ~ChainBlocker(rel'[i].rev, rel'[i].env, rel'[i].exempt)
    \/ /\ rel'[i] = [rel[i] EXCEPT !.state = rel'[i].state]
       /\ \/ rel[i].state = "pending" /\ rel'[i].state \in {"converged", "stale"}
          \/ rel[i].state = "converged" /\ rel'[i].state \in {"superseded", "withdrawn"}

LEMMA ForwardStep ==
    ASSUME IInv, Next, NEW i \in RelIds
    PROVE  Forward(i) \/ Erased
  <1>1. /\ rel \in [RelIds -> Row] /\ rel[i] \in Row /\ nrel \in Nat
        /\ i > nrel => rel[i].state = "none"
    BY DEF IInv, TypeOK, RowInv, RowsFilled
  <1>2. PICK p \in Processes :
           Handlers(p) \/ Tick(p) \/ SpineWrites(p) \/ Runner(p) \/ Crash(p)
    BY DEF Next
  <1>3. CASE rel' = rel
    BY <1>3 DEF Forward
  <1>4. ASSUME NEW e \in Envs, NEW rev \in Revs, NEW skip \in BOOLEAN,
               Confirm(p, e, rev, skip)
        PROVE  Forward(i)
    <2>1. rel' = [rel EXCEPT ![nrel + 1] =
                     [env |-> e, rev |-> rev, state |-> "pending", exempt |-> skip]]
      BY <1>4 DEF Confirm
    <2>2. CASE i = nrel + 1
      <3>1. rel'[i] = [env |-> e, rev |-> rev, state |-> "pending", exempt |-> skip]
        BY <1>1, <2>1, <2>2
      <3> QED BY <1>1, <1>4, <2>2, <3>1 DEF Forward, Confirm
    <2>3. CASE i # nrel + 1
      BY <1>1, <2>1, <2>3 DEF Forward
    <2> QED BY <2>2, <2>3
  <1>5. CASE SpineWrites(p)
    <2>1. PICK e \in Envs, rev \in Revs : rel' = SpineLive(e, rev)
      BY <1>5 DEF SpineWrites, GoLive
    <2> DEFINE m == Move(e, "converged", "superseded", rel)
               new == [env |-> e, rev |-> rev, state |-> "converged", exempt |-> TRUE]
    <2>2. DOMAIN m = RelIds /\ rel' = [m EXCEPT ![nrel + 1] = new]
      BY <2>1 DEF SpineLive, Move
    <2>3. \/ m[i] = rel[i]
          \/ /\ rel[i].state = "converged" /\ m[i].state = "superseded"
             /\ m[i] = [rel[i] EXCEPT !.state = "superseded"]
      BY <1>1, MoveHistory
    <2> HIDE DEF m
    <2>4. CASE i = nrel + 1
      <3>1. /\ rel'[i].state = "converged" /\ rel[i].state = "none"
            /\ rel'[i].exempt = TRUE
        BY <1>1, <2>2, <2>4
      <3> QED BY <3>1 DEF Forward, ChainBlocker
    <2>5. CASE i # nrel + 1
      <3>1. rel'[i] = m[i]
        BY <2>2, <2>5
      <3> QED BY <2>3, <3>1 DEF Forward
    <2> QED BY <2>4, <2>5
  <1>6. CASE Reconcile(p)
    <2>1. PICK j \in JobIds : j = pass[p].job /\ job[j].state # "none"
      BY <1>6 DEF Reconcile, IInv, PassesKnown
    <2>2. Removes(j) \/ GoesStale(j) \/ Applies(j) \/ UNCHANGED rel
      BY <1>6, <2>1 DEF Reconcile, Replayed, Retried
    <2>3. PICK e \in Envs : e = job[j].env
      BY <2>1 DEF IInv, JobsFilled
    <2>4. CASE Removes(j)
      <3> DEFINE w == Move(e, "converged", "withdrawn", rel)
      <3>1. rel' = Move(e, "pending", "stale", w)
        BY <2>3, <2>4 DEF Removes, TakenDown
      <3>2. \/ w[i] = rel[i]
            \/ /\ rel[i].state = "converged" /\ w[i].state = "withdrawn"
               /\ w[i] = [rel[i] EXCEPT !.state = "withdrawn"]
        BY <1>1, MoveHistory
      <3>3. w \in [RelIds -> Row]
        <4>1. "withdrawn" \in States
          BY DEF States, ReachedStates
        <4> QED BY <1>1, <4>1, MoveFacts
      <3> HIDE DEF w
      <3>4. \/ rel'[i] = w[i]
            \/ /\ w[i].state = "pending" /\ rel'[i].state = "stale"
               /\ rel'[i] = [w[i] EXCEPT !.state = "stale"]
        BY <3>1, <3>3, MoveHistory
      <3> QED BY <3>2, <3>4 DEF Forward
    <2>5. CASE GoesStale(j)
      <3>1. PICK k \in RelIds : k = job[j].release
        BY <2>1, <2>5 DEF GoesStale, IInv, JobsFilled
      <3>2. rel' = [rel EXCEPT ![k].state = "stale"] /\ rel[k].state = "pending"
        BY <2>5, <3>1 DEF GoesStale
      <3>3. CASE i = k
        <4>1. rel'[i] = [rel[i] EXCEPT !.state = "stale"] /\ rel'[i].state = "stale"
          BY <1>1, <3>2, <3>3 DEF Row
        <4> QED BY <3>2, <3>3, <4>1 DEF Forward
      <3>4. CASE i # k
        BY <1>1, <3>2, <3>4 DEF Forward
      <3> QED BY <3>3, <3>4
    <2>6. CASE Applies(j)
      <3>1. PICK k \in RelIds : k = job[j].release
        BY <2>1, <2>6 DEF Applies, IInv, JobsFilled
      <3> DEFINE m == Move(e, "converged", "superseded", rel)
      <3>2. DOMAIN m = RelIds /\ rel' = [m EXCEPT ![k].state = "converged"]
            /\ rel[k].state = "pending"
        BY <2>3, <2>6, <3>1 DEF Applies, Move
      <3>3. \/ m[i] = rel[i]
            \/ /\ rel[i].state = "converged" /\ m[i].state = "superseded"
               /\ m[i] = [rel[i] EXCEPT !.state = "superseded"]
        BY <1>1, MoveHistory
      <3> HIDE DEF m
      <3>4. CASE i = k
        <4>1. m[i] = rel[i]
          BY <3>2, <3>3, <3>4
        <4>2. rel'[i] = [rel[i] EXCEPT !.state = "converged"] /\ rel'[i].state = "converged"
          BY <1>1, <3>2, <3>4, <4>1 DEF Row
        <4> QED BY <3>2, <3>4, <4>2 DEF Forward
      <3>5. CASE i # k
        <4>1. rel'[i] = m[i]
          BY <3>2, <3>5
        <4> QED BY <3>3, <4>1 DEF Forward
      <3> QED BY <3>4, <3>5
    <2> QED BY <1>3, <2>2, <2>4, <2>5, <2>6
  <1>7. CASE EndPass(p)
    BY <1>3, <1>7 DEF EndPass, Erased
  <1>8. CASE Handlers(p) /\ ~(\E e \in Envs, rev \in Revs, skip \in BOOLEAN : Confirm(p, e, rev, skip))
    <2>1. UNCHANGED rows
      BY <1>8 DEF Handlers, Withdraw, DeleteResource, CreateGateway, DeleteGateway,
         SetPaused, Obstruct
    <2> QED BY <1>3, <2>1 DEF rows
  <1>9. CASE Tick(p) \/ Crash(p) \/ SelectJobs(p) \/ TakeJob(p) \/ MarkJob(p)
    BY <1>3, <1>9 DEF Tick, Crash, SelectJobs, TakeJob, MarkJob, rows
  <1> QED BY <1>2, <1>4, <1>5, <1>6, <1>7, <1>8, <1>9 DEF Runner

(* A release's state only moves forward, and what superseded, withdrew or  *)
(* outdated it is never undone, short of deleting the API.                 *)
THEOREM HistoryKept == Spec => StateHistory
  <1>1. IInv /\ [Next]_releaseVars => [\A i \in RelIds : HistoryStep(i)]_releaseVars
    BY ForwardStep DEF Forward, Erased, HistoryStep
  <1> QED BY <1>1, Invariance, PTL DEF Spec, StateHistory

(* What has reached an environment's fleet has reached it for good, so an  *)
(* open gate stays open.                                                   *)
LEMMA GateKept ==
    ASSUME IInv, GateHolds, Next
    PROVE  GateHolds'
  <1>1. CASE Erased
    BY <1>1 DEF Erased, GateHolds, NoRow
  <1>2. CASE ~Erased
    <2>1. \A i \in RelIds : Forward(i) /\ rel[i] \in Row
      BY <1>2, ForwardStep DEF IInv, TypeOK
    <2>2. \A i \in RelIds : rel[i].state # "none" =>
            /\ rel'[i].env = rel[i].env /\ rel'[i].rev = rel[i].rev
            /\ rel'[i].exempt = rel[i].exempt
            /\ rel[i].state \in ReachedStates => rel'[i].state \in ReachedStates
      BY <2>1 DEF Forward, Row, ReachedStates
    <2>3. \A rev, e : ReachedFleet(rev, e) => ReachedFleet(rev, e)'
      BY <2>2 DEF ReachedFleet, Reached, In, ReachedStates
    <2>4. \A rev, e, skip : ~ChainBlocker(rev, e, skip) => ~ChainBlocker(rev, e, skip)'
      BY <2>3 DEF ChainBlocker
    <2> SUFFICES ASSUME NEW i \in RelIds, rel'[i].state # "none"
                 PROVE  ~ChainBlocker(rel[i].rev, rel[i].env, rel[i].exempt)'
      BY DEF GateHolds
    <2>5. ~ChainBlocker(rel'[i].rev, rel'[i].env, rel'[i].exempt)
      <3>1. CASE rel[i].state = "none"
        BY <2>1, <3>1 DEF Forward
      <3>2. CASE rel[i].state # "none"
        BY <2>2, <3>2 DEF GateHolds
      <3> QED BY <3>1, <3>2
    <2> QED BY <2>4, <2>5 DEF ChainBlocker, ReachedFleet
  <1> QED BY <1>1, <1>2

(* Every release that is subject to the gate has a revision that reached   *)
(* the predecessor environment, from its confirmation on.                  *)
THEOREM GateAlwaysHeld == Spec => []GateHolds
  <1>1. Init => GateHolds
    BY DEF Init, GateHolds, NoRow
  <1>2. IInv /\ GateHolds /\ [Next]_releaseVars => GateHolds'
    <2>1. ASSUME GateHolds, UNCHANGED releaseVars PROVE GateHolds'
      BY <2>1 DEF GateHolds, ChainBlocker, ReachedFleet, Reached, In, releaseVars, rows
    <2> QED BY <2>1, GateKept
  <1> QED BY <1>1, <1>2, Invariance, PTL DEF Spec

-----------------------------------------------------------------------------
(* Only a job whose gateways are all open, the spine, and the deletion of  *)
(* the API write the applied table.                                        *)
LEMMA PauseRespectedByStep ==
    ASSUME IInv, Next, NEW g \in Gateways, gateway[g] = "paused",
           applied'[g] # applied[g]
    PROVE  ~alive' \/ \E p \in Processes : pass[p].step = "operations"
  <1>1. PICK p \in Processes :
           Handlers(p) \/ Tick(p) \/ SpineWrites(p) \/ Runner(p) \/ Crash(p)
    BY DEF Next
  <1>2. CASE Handlers(p)
    <2>1. PICK h \in Gateways : DeleteGateway(p, h)
      BY <1>2 DEF Handlers, Confirm, Withdraw, DeleteResource, CreateGateway,
         SetPaused, Obstruct, projection
    <2>2. applied \in [Gateways -> Revs \cup {NoRev}]
      BY DEF IInv, TypeOK
    <2>3. h = g /\ applied'[g] = NoRev
      BY <2>1, <2>2 DEF DeleteGateway
    <2>4. applied[g] = NoRev
      BY <2>1, <2>3, ReleaseAssumption
         DEF ReleaseAssumption, DeleteGateway, IInv, RowInv, AppliedIsLive
    <2> QED BY <2>3, <2>4
  <1>3. CASE SpineWrites(p)
    BY <1>3 DEF SpineWrites
  <1>4. CASE Tick(p) \/ Crash(p) \/ SelectJobs(p) \/ TakeJob(p) \/ MarkJob(p)
    BY <1>4 DEF Tick, Crash, SelectJobs, TakeJob, MarkJob, projection
  <1>5. CASE EndPass(p)
    BY <1>5 DEF EndPass, projection
  <1>6. CASE Reconcile(p)
    <2>1. PICK j \in JobIds : j = pass[p].job /\ job[j].state # "none"
      BY <1>6 DEF Reconcile, IInv, PassesKnown
    <2>2. (Removes(j) \/ Applies(j)) /\ ~Throws(j)
      BY <1>6, <2>1 DEF Reconcile, Replayed, Retried, GoesStale, Gone, Removes, Applies, projection
    <2>3. CASE Removes(j)
      <3>1. EnvOf[g] = job[j].env
        BY <2>3 DEF Removes
      <3>2. g \in Affected(j)
        BY <2>3, <3>1 DEF Removes, Affected, Present
      <3> QED BY <2>2, <3>2 DEF Throws
    <2>4. CASE Applies(j)
      <3>1. g \in (IF bound[job[j].env] = {} THEN Present(job[j].env) ELSE bound[job[j].env])
        BY <2>4 DEF Applies
      <3>2. job[j].env \in Envs /\ bound[job[j].env] \subseteq Present(job[j].env)
        BY <2>1 DEF IInv, JobsFilled, RowInv, AppliedIsLive
      <3>3. g \in Affected(j)
        BY <2>4, <3>1, <3>2 DEF Applies, Affected
      <3> QED BY <2>2, <3>3 DEF Throws
    <2> QED BY <2>2, <2>3, <2>4
  <1> QED BY <1>1, <1>2, <1>3, <1>4, <1>5, <1>6 DEF Runner

(* The reconciler writes nothing of a paused gateway.                      *)
THEOREM PauseRespected == Spec => JobsRespectPause
  <1>1. IInv /\ [Next]_releaseVars =>
          [\A g \in Gateways :
             gateway[g] = "paused" /\ applied'[g] # applied[g] =>
               ~alive' \/ \E p \in Processes : pass[p].step = "operations"]_releaseVars
    BY PauseRespectedByStep
  <1> QED BY <1>1, Invariance, PTL DEF Spec, JobsRespectPause

(* Whatever is retried or replayed, one release is live, the newest that   *)
(* reached the fleet and none that was withdrawn.                          *)
THEOREM NothingReturns == Spec => []NothingComesBack
  BY OneLiveRelease, NewestIsLive, WithdrawalFinal, PTL DEF NothingComesBack

(* The reconciler rewrites neither the history of a release nor a paused   *)
(* gateway.                                                                *)
THEOREM JobsStayTheirs == Spec => JobsKeepToTheirs
  BY HistoryKept, PauseRespected, PTL DEF JobsKeepToTheirs
=============================================================================
