---------------------------- MODULE PortalProofs ----------------------------
(***************************************************************************)
(* Theorems about what stands between people and the estate: the sign-in   *)
(* through the identity provider (SignIn), the accounts and their sessions *)
(* (Accounts) and the screens of the portal (Screens).                     *)
(***************************************************************************)
EXTENDS Accounts, SignIn, Screens, FiniteSetTheorems, WellFoundedInduction, TLAPS

(* Induction over the naturals, as a least counterexample.                 *)
LEMMA LeastNat ==
    ASSUME NEW T \in SUBSET Nat, T # {}
    PROVE  \E m \in T : \A n \in T : m <= n
  <1> DEFINE R == OpToRel(<, Nat)
  <1>1. IsWellFoundedOn(R, Nat)
    BY NatLessThanWellFounded
  <1>2. \A x, y \in Nat : y < x => <<y, x>> \in R
    BY DEF OpToRel
  <1> HIDE DEF R
  <1>3. PICK x \in T : \A y \in T : ~(<<y, x>> \in R)
    BY <1>1, WFMin
  <1>4. ASSUME NEW n \in T PROVE x <= n
    <2>1. x \in Nat /\ n \in Nat
      OBVIOUS
    <2>2. ~(n < x)
      BY <1>2, <1>3, <2>1
    <2> QED BY <2>1, <2>2
  <1> QED BY <1>4

-----------------------------------------------------------------------------
(* Claims to applications.                                                 *)
Application == [known : BOOLEAN, group : Groups \cup {NoGroup}]
AppsOK(a) == /\ a \in [AppIds -> Application]
             /\ \A x \in AppIds : ~a[x].known => a[x].group = NoGroup
(* No group's application has become another's since a.                    *)
Keeps(a, b) == \A x \in AppIds : a[x].group # NoGroup => b[x].group = a[x].group
Mapped(a, acc) ==
    /\ DOMAIN acc = {"apps", "ids"} /\ AppsOK(acc.apps) /\ acc.ids \subseteq AppIds
    /\ Keeps(a, acc.apps)

LEMMA MapGroupSound ==
    ASSUME NEW a, AppsOK(a), NEW acc, Mapped(a, acc), NEW g \in Groups
    PROVE  Mapped(a, MapGroup(acc, g))
  <1> DEFINE b == acc.apps
             id == IdOf[g]
  <1>1. id \in AppIds \cup {NoId} /\ NoId \notin AppIds
    BY SignInAssumption DEF SignInAssumption
  <1>2. AppsOK(b) /\ acc.ids \subseteq AppIds /\ Keeps(a, b) /\ DOMAIN acc = {"apps", "ids"}
    BY DEF Mapped
  <1>3. CASE Hit(b, g) # {}
    <2>1. Hit(b, g) \subseteq AppIds
      BY <1>2 DEF Hit, BoundTo, AppsOK
    <2>2. PICK x \in AppIds : x = CHOOSE y \in Hit(b, g) : TRUE
      BY <1>3, <2>1
    <2>3. MapGroup(acc, g) = [acc EXCEPT !.ids = @ \cup {x}]
      BY <1>3, <2>2 DEF MapGroup
    <2> QED BY <1>2, <2>3 DEF Mapped
  <1>4. CASE Hit(b, g) = {} /\ (id = NoId \/ (b[id].known /\ b[id].group # NoGroup))
    <2>1. MapGroup(acc, g) = acc
      BY <1>4 DEF MapGroup
    <2> QED BY <2>1
  <1>5. CASE Hit(b, g) = {} /\ ~(id = NoId \/ (b[id].known /\ b[id].group # NoGroup))
    <2> DEFINE c == [b EXCEPT ![id] = [known |-> TRUE, group |-> g]]
    <2>1. MapGroup(acc, g) = [apps |-> c, ids |-> acc.ids \cup {id}]
      BY <1>5 DEF MapGroup
    <2>2. id \in AppIds /\ b[id].group = NoGroup
      BY <1>1, <1>2, <1>5 DEF AppsOK
    <2>3. AppsOK(c)
      BY <1>2, <2>2 DEF AppsOK, Application
    <2>4. Keeps(a, c)
      BY <1>2, <2>2 DEF Keeps, AppsOK
    <2> HIDE DEF c
    <2> QED BY <1>2, <2>1, <2>2, <2>3, <2>4 DEF Mapped
  <1> QED BY <1>3, <1>4, <1>5

(* The claims taken one after the other: what the recursion of MapGroups   *)
(* is, by induction on how many have been taken.                           *)
LEMMA MapGroupsSound ==
    ASSUME AppsOK(apps), NEW groups \in Seq(Groups)
    PROVE  Mapped(apps, MapGroups(groups))
  <1> DEFINE base == [apps |-> apps, ids |-> {}]
             Run(f, k) == \A n \in 0..k : f[n] = IF n = 0 THEN base
                                                ELSE MapGroup(f[n - 1], groups[n])
             Def(f) == f = [n \in 0..Len(groups) |-> IF n = 0 THEN base
                                                     ELSE MapGroup(f[n - 1], groups[n])]
  <1>1. Len(groups) \in Nat /\ \A n \in 1..Len(groups) : groups[n] \in Groups
    OBVIOUS
  <1>2. ASSUME NEW k \in Nat, k <= Len(groups) PROVE \E f : Run(f, k)
    <2> DEFINE Bad == {n \in Nat : n <= Len(groups) /\ ~\E f : Run(f, n)}
    <2> SUFFICES ASSUME Bad # {} PROVE FALSE
      BY <1>2
    <2>1. PICK m \in Bad : \A n \in Bad : m <= n
      <3> HIDE DEF Bad
      <3>1. Bad \in SUBSET Nat
        BY DEF Bad
      <3> QED BY <3>1, LeastNat
    <2>2. CASE m = 0
      <3>1. Run([n \in {0} |-> base], 0)
        <4>1. 0..0 = {0}
          OBVIOUS
        <4> HIDE DEF base
        <4> QED BY <4>1
      <3> QED BY <2>1, <2>2, <3>1
    <2>3. CASE m # 0
      <3> m \in Nat /\ m <= Len(groups)
        OBVIOUS
      <3>1. m - 1 \in Nat /\ m - 1 <= Len(groups) /\ m - 1 \notin Bad
        <4> HIDE DEF Bad
        <4> QED BY <2>1, <2>3, <1>1
      <3>2. PICK f : Run(f, m - 1)
        BY <3>1
      <3> DEFINE h == [n \in 0..m |-> IF n = m THEN MapGroup(f[m - 1], groups[m]) ELSE f[n]]
      <3>3. ASSUME NEW n \in 0..m
            PROVE  h[n] = IF n = 0 THEN base ELSE MapGroup(h[n - 1], groups[n])
        <4> HIDE DEF Bad, Run
        <4>1. CASE n = m
          <5>1. m \in 0..m /\ m - 1 \in 0..m /\ m - 1 # m
            BY <2>3, <3>1
          <5>2. h[m] = MapGroup(f[m - 1], groups[m])
            BY <5>1
          <5>3. h[m - 1] = f[m - 1]
            BY <5>1
          <5> HIDE DEF h, base
          <5> QED BY <2>3, <4>1, <5>2, <5>3
        <4>2. CASE n # m
          <5>1. n \in 0..(m - 1)
            BY <2>1, <4>2
          <5>2. h[n] = f[n] /\ (n # 0 => h[n - 1] = f[n - 1])
            BY <2>1, <4>2, <5>1
          <5>3. f[n] = IF n = 0 THEN base ELSE MapGroup(f[n - 1], groups[n])
            BY <3>2, <5>1 DEF Run
          <5> HIDE DEF h, base
          <5> QED BY <5>2, <5>3
        <4> QED BY <4>1, <4>2
      <3>4. Run(h, m)
        BY <3>3
      <3> QED BY <2>1, <3>4
    <2> QED BY <2>2, <2>3
  <1>3. \E f : Def(f)
    <2>1. PICK f : Run(f, Len(groups))
      <3>1. Len(groups) <= Len(groups)
        BY <1>1
      <3> HIDE DEF Run
      <3> QED BY <1>1, <1>2, <3>1
    <2> DEFINE h == [n \in 0..Len(groups) |-> f[n]]
    <2>2. Def(h)
      <3>1. ASSUME NEW n \in 0..Len(groups)
            PROVE  f[n] = IF n = 0 THEN base ELSE MapGroup(h[n - 1], groups[n])
        <4>1. n # 0 => n - 1 \in 0..Len(groups)
          BY <1>1
        <4> QED BY <2>1, <4>1
      <3> QED BY <3>1
    <2> QED BY <2>2
  <1> DEFINE after == CHOOSE f : Def(f)
  <1>4. Def(after)
    <2> HIDE DEF Def
    <2> QED BY <1>3
  <1>5. MapGroups(groups) = after[Len(groups)]
    BY DEF MapGroups
  <1> HIDE DEF after
  <1>6. after[0] = base /\ \A n \in 1..Len(groups) : after[n] = MapGroup(after[n - 1], groups[n])
    <2> HIDE DEF base
    <2>1. ASSUME NEW n \in 0..Len(groups)
          PROVE  after[n] = IF n = 0 THEN base ELSE MapGroup(after[n - 1], groups[n])
      BY <1>4
    <2>2. 0 \in 0..Len(groups) /\ \A n \in 1..Len(groups) : n \in 0..Len(groups) /\ n # 0
      BY <1>1
    <2> QED BY <2>1, <2>2
  <1>7. Mapped(apps, base)
    BY DEF Mapped, Keeps
  <1>8. ASSUME NEW k \in Nat, k <= Len(groups) PROVE Mapped(apps, after[k])
    <2> DEFINE Bad == {n \in Nat : n <= Len(groups) /\ ~Mapped(apps, after[n])}
    <2> SUFFICES ASSUME Bad # {} PROVE FALSE
      BY <1>8
    <2>1. PICK m \in Bad : \A n \in Bad : m <= n
      <3> HIDE DEF Bad
      <3>1. Bad \in SUBSET Nat
        BY DEF Bad
      <3> QED BY <3>1, LeastNat
    <2>2. m # 0
      BY <1>6, <1>7, <2>1
    <2>3. m - 1 \in Nat /\ m - 1 <= Len(groups) /\ m - 1 \notin Bad /\ m \in 1..Len(groups)
      BY <1>1, <2>1, <2>2
    <2>4. Mapped(apps, after[m - 1])
      BY <2>3
    <2>5. Mapped(apps, after[m])
      BY <1>1, <1>6, <2>3, <2>4, MapGroupSound
    <2> QED BY <2>1, <2>5
  <1> QED BY <1>1, <1>5, <1>8

-----------------------------------------------------------------------------
(* Sign-in: the inductive invariant.  A flow's code is presented by the    *)
(* one callback that took its row, and a session's refresh token is        *)
(* presented by the one refresh that is under way for it, so what the      *)
(* provider holds is what the session or that refresh holds.               *)
Outcomes == {"none", "ok", "refused", "unavailable", "another subject"}
TaskStages == {"discovering", "asking", "answered"}
CallbackTask ==
    [stage : TaskStages, kind : {"callback"}, flow : Flows, subject : Subjects,
     groups : Seq(Groups) \cup {NoClaims}]
RefreshTask ==
    [stage : TaskStages, kind : {"refresh"}, session : WebSessions, token : Nat,
     outcome : Outcomes, groups : Seq(Groups) \cup {NoClaims}]
WebSession == [state : {"live", "ended"}, subject : Subjects, token : Nat, due : BOOLEAN]
NoWebSession == [state |-> "absent"]

TasksOK ==
    /\ task \in [Tasks -> {IdleTask} \cup CallbackTask \cup RefreshTask]
    /\ \A t \in Tasks : task[t] \in CallbackTask /\ task[t].stage = "answered"
                           => task[t].groups \in Seq(Groups)
RowsOK ==
    /\ web \in [WebSessions -> {NoWebSession} \cup WebSession]
    /\ idp \in [claims : [Subjects -> Seq(Groups)], token : [WebSessions -> Nat],
                ended : SUBSET WebSessions]
    /\ exchanges \in [Flows -> Nat] /\ excused \subseteq WebSessions
    /\ AppsOK(apps) /\ SignInTypeOK

(* The row goes to one callback, and the code of a flow whose row is there *)
(* or whose callback has yet to ask has not been presented.                *)
FlowsHeldOnce ==
    /\ FlowUsedOnce
    /\ \A f \in flows : exchanges[f] = 0
    /\ \A t \in Tasks : task[t] \in CallbackTask =>
          /\ task[t].flow \notin flows
          /\ task[t].stage # "answered" => exchanges[task[t].flow] = 0
    /\ \A t, u \in Tasks :
          task[t] \in CallbackTask /\ task[u] \in CallbackTask /\ task[t].flow = task[u].flow => t = u

(* Until a session is excused its row, its refresh and the provider agree. *)
Ahead(x) == IF x.stage = "answered" /\ x.outcome = "ok" THEN 1 ELSE 0
RefreshHolds(x, w, held, exc) ==
    /\ w.state # "absent"
    /\ x.session \notin exc => w.token = x.token /\ held = x.token + Ahead(x)
    /\ x.stage = "answered" /\ x.outcome \in {"refused", "another subject"}
         => x.session \in exc
SessionHolds(g, w, held, exc) ==
    /\ w.state = "ended" => g \in exc
    /\ w.state = "absent" => held = 0 /\ g \notin exc
Refreshing(g) == \E t \in Tasks : task[t] \in RefreshTask /\ task[t].session = g
RefreshesAgree ==
    /\ idp.ended \subseteq excused
    /\ \A g \in WebSessions : SessionHolds(g, web[g], idp.token[g], excused)
    /\ \A t \in Tasks : task[t] \in RefreshTask =>
          RefreshHolds(task[t], web[task[t].session], idp.token[task[t].session], excused)
    /\ \A t, u \in Tasks :
          task[t] \in RefreshTask /\ task[u] \in RefreshTask /\ task[t].session = task[u].session
              => t = u
    /\ \A g \in WebSessions :
          g \notin excused /\ web[g].state # "absent" /\ ~Refreshing(g)
              => web[g].token = idp.token[g]

OInv == TasksOK /\ RowsOK /\ FlowsHeldOnce /\ RefreshesAgree

(* The three kinds of task tell themselves apart.                          *)
LEMMA TaskKinds ==
    /\ IdleTask \notin CallbackTask \cup RefreshTask
    /\ \A x \in CallbackTask : x.kind = "callback" /\ x \notin RefreshTask
    /\ \A x \in RefreshTask : x.kind = "refresh" /\ x \notin CallbackTask
    /\ NoClaims \notin Seq(Groups)
  <1>1. IdleTask.stage = "idle"
    BY DEF IdleTask
  <1>2. \A x \in CallbackTask \cup RefreshTask : x.stage # "idle"
    BY DEF CallbackTask, RefreshTask, TaskStages
  <1>3. (\A x \in CallbackTask : x.kind = "callback") /\ (\A x \in RefreshTask : x.kind = "refresh")
    BY DEF CallbackTask, RefreshTask
  <1>4. NoClaims \notin Seq(Groups)
    <2>1. NoClaims[1] = NoGroup /\ 1 \in 1..Len(NoClaims)
      BY DEF NoClaims
    <2>2. NoGroup \notin Groups
      BY SignInAssumption DEF SignInAssumption
    <2> QED BY <2>1, <2>2
  <1> QED BY <1>1, <1>2, <1>3, <1>4

LEMMA OInvInit == SignInInit => OInv
  <1> SUFFICES ASSUME SignInInit PROVE OInv
    OBVIOUS
  <1>1. TasksOK
    BY TaskKinds DEF SignInInit, TasksOK
  <1>2. AppsOK(apps) /\ SignInTypeOK
    BY SignInAssumption DEF SignInInit, AppsOK, Application, SignInTypeOK, SignInAssumption
  <1>3. RowsOK
    BY <1>2 DEF SignInInit, RowsOK, NoWebSession
  <1>4. FlowsHeldOnce
    BY TaskKinds DEF SignInInit, FlowsHeldOnce, FlowUsedOnce
  <1>5. RefreshesAgree
    BY TaskKinds DEF SignInInit, RefreshesAgree, SessionHolds
  <1> QED BY <1>1, <1>3, <1>4, <1>5 DEF OInv

(* Steps that leave flows and codes alone, and drop or advance callbacks.  *)
LEMMA FlowsFrame ==
    ASSUME FlowsHeldOnce, flows' \subseteq flows, exchanges' = exchanges,
           \A t \in Tasks : task'[t] \in CallbackTask =>
              /\ task[t] \in CallbackTask /\ task'[t].flow = task[t].flow
              /\ task'[t].stage # "answered" => task[t].stage # "answered"
    PROVE  FlowsHeldOnce'
  BY DEF FlowsHeldOnce, FlowUsedOnce

(* Steps that leave tokens and the states of sessions alone, and at most   *)
(* advance or drop a refresh that holds the token the provider holds.      *)
LEMMA RefreshesFrame ==
    ASSUME RefreshesAgree, idp'.token = idp.token, idp'.ended = idp.ended, excused' = excused,
           web' = web,
           \A t \in Tasks : task'[t] \in RefreshTask =>
              /\ task[t] \in RefreshTask /\ task'[t].session = task[t].session
              /\ task'[t].token = task[t].token /\ Ahead(task'[t]) = Ahead(task[t])
              /\ task'[t].stage = "answered" =>
                    task[t].stage = "answered" /\ task'[t].outcome = task[t].outcome,
           \A t \in Tasks : task[t] \in RefreshTask /\ task'[t] \notin RefreshTask
              => task[t].token + Ahead(task[t]) = task[t].token
    PROVE  RefreshesAgree'
  <1>1. /\ idp'.ended \subseteq excused'
        /\ \A g \in WebSessions : SessionHolds(g, web'[g], idp'.token[g], excused')
    BY DEF RefreshesAgree
  <1>2. ASSUME NEW t \in Tasks, task'[t] \in RefreshTask
        PROVE  RefreshHolds(task'[t], web'[task'[t].session], idp'.token[task'[t].session], excused')
    <2>1. RefreshHolds(task[t], web[task[t].session], idp.token[task[t].session], excused)
      BY <1>2 DEF RefreshesAgree
    <2> HIDE DEF Ahead
    <2> QED BY <1>2, <2>1 DEF RefreshHolds
  <1>3. \A t, u \in Tasks :
          task'[t] \in RefreshTask /\ task'[u] \in RefreshTask /\ task'[t].session = task'[u].session
              => t = u
    BY DEF RefreshesAgree
  <1>4. ASSUME NEW g \in WebSessions, g \notin excused', web'[g].state # "absent", ~Refreshing(g)'
        PROVE  web'[g].token = idp'.token[g]
    <2>1. CASE Refreshing(g)
      <3>1. PICK t \in Tasks : task[t] \in RefreshTask /\ task[t].session = g
        BY <2>1 DEF Refreshing
      <3>2. task'[t] \notin RefreshTask
        BY <1>4, <3>1 DEF Refreshing
      <3>3. RefreshHolds(task[t], web[g], idp.token[g], excused)
        BY <3>1 DEF RefreshesAgree
      <3> HIDE DEF Ahead
      <3> QED BY <1>4, <3>1, <3>2, <3>3 DEF RefreshHolds
    <2>2. CASE ~Refreshing(g)
      BY <1>4, <2>2 DEF RefreshesAgree
    <2> QED BY <2>1, <2>2
  <1> QED BY <1>1, <1>2, <1>3, <1>4 DEF RefreshesAgree

(* Discovery and the rows of flows.                                        *)
LEMMA DiscoveryKeeps ==
    ASSUME OInv,
           \/ DiscoveryAnswers \/ DiscoveryFails \/ DiscoveryLapses \/ LoginAsks
           \/ \E f \in Flows : StartFlow(f) \/ FlowLapses(f)
    PROVE  OInv'
  <1> USE DEF OInv
  <1>1. /\ UNCHANGED <<web, apps, member, idp, exchanges, excused>>
        /\ turns' \in 0..MaxTurns /\ flows' \subseteq Flows
        /\ discovery' \in {"cold", "fetching", "known"}
    BY SignInAssumption DEF SignInAssumption, DiscoveryAnswers, DiscoveryFails, DiscoveryLapses,
       LoginAsks, StartFlow, FlowLapses, Turn, RowsOK, SignInTypeOK
  <1>2. RowsOK'
    BY <1>1 DEF RowsOK, SignInTypeOK, AppsOK
  <1>3. ASSUME NEW t \in Tasks
        PROVE  \/ task'[t] = task[t]
               \/ /\ task[t].stage = "discovering" /\ task[t] # IdleTask
                  /\ task'[t] \in {[task[t] EXCEPT !.stage = "asking"], IdleTask}
    BY DEF DiscoveryAnswers, DiscoveryFails, DiscoveryLapses, LoginAsks, StartFlow, FlowLapses,
           IdleTask
  <1>4. ASSUME NEW t \in Tasks, task[t] \in CallbackTask, task'[t] # task[t]
        PROVE  \/ task'[t] = IdleTask
               \/ /\ task'[t] \in CallbackTask /\ task'[t].flow = task[t].flow
                  /\ task'[t].stage = "asking" /\ task[t].stage = "discovering"
    BY <1>3, <1>4 DEF CallbackTask, TaskStages
  <1>5. ASSUME NEW t \in Tasks, task[t] \in RefreshTask, task'[t] # task[t]
        PROVE  \/ task'[t] = IdleTask /\ task[t].stage = "discovering"
               \/ /\ task'[t] \in RefreshTask /\ task'[t].session = task[t].session
                  /\ task'[t].token = task[t].token /\ task'[t].outcome = task[t].outcome
                  /\ task'[t].stage = "asking" /\ task[t].stage = "discovering"
    BY <1>3, <1>5 DEF RefreshTask, TaskStages
  <1>6. task' = [t \in Tasks |-> task'[t]]
    BY DEF DiscoveryAnswers, DiscoveryFails, DiscoveryLapses, LoginAsks, StartFlow, FlowLapses,
           TasksOK
  <1>7. TasksOK'
    <2>1. ASSUME NEW t \in Tasks
          PROVE  /\ task'[t] \in {IdleTask} \cup CallbackTask \cup RefreshTask
                 /\ task'[t] \in CallbackTask /\ task'[t].stage = "answered"
                      => task'[t].groups \in Seq(Groups)
      BY <1>4, <1>5, <1>3, TaskKinds DEF TasksOK
    <2> QED BY <1>6, <2>1 DEF TasksOK
  <1>8. FlowsHeldOnce'
    <2>1. CASE flows' \subseteq flows
      <3>1. ASSUME NEW t \in Tasks, task'[t] \in CallbackTask
            PROVE  /\ task[t] \in CallbackTask /\ task'[t].flow = task[t].flow
                   /\ task'[t].stage # "answered" => task[t].stage # "answered"
        BY <1>3, <1>4, <1>5, <3>1, TaskKinds DEF TasksOK
      <3> QED BY <1>1, <2>1, <3>1, FlowsFrame
    <2>2. ASSUME NEW f \in Flows, StartFlow(f) PROVE FlowsHeldOnce'
      <3>1. task' = task /\ flows' = flows \cup {f} /\ exchanges' = exchanges /\ exchanges[f] = 0
        BY <2>2 DEF StartFlow
      <3>2. \A t \in Tasks : task[t] \in CallbackTask => task[t].flow # f
        BY <2>2, TaskKinds DEF StartFlow
      <3> QED BY <3>1, <3>2 DEF FlowsHeldOnce, FlowUsedOnce
    <2> QED BY <2>1, <2>2 DEF DiscoveryAnswers, DiscoveryFails, DiscoveryLapses, LoginAsks, FlowLapses
  <1>9. RefreshesAgree'
    <2>1. ASSUME NEW t \in Tasks, task'[t] \in RefreshTask
          PROVE  /\ task[t] \in RefreshTask /\ task'[t].session = task[t].session
                 /\ task'[t].token = task[t].token /\ Ahead(task'[t]) = Ahead(task[t])
                 /\ task'[t].stage = "answered" =>
                      task[t].stage = "answered" /\ task'[t].outcome = task[t].outcome
      BY <1>3, <1>4, <1>5, <2>1, TaskKinds DEF TasksOK, Ahead
    <2>2. ASSUME NEW t \in Tasks, task[t] \in RefreshTask, task'[t] \notin RefreshTask
          PROVE  task[t].token + Ahead(task[t]) = task[t].token
      BY <1>5, <2>2 DEF Ahead, RefreshTask
    <2>3. idp'.token = idp.token /\ idp'.ended = idp.ended /\ excused' = excused /\ web' = web
      BY <1>1
    <2> HIDE DEF OInv
    <2>4. RefreshesAgree
      BY DEF OInv
    <2> QED BY <2>1, <2>2, <2>3, <2>4, RefreshesFrame
  <1> QED BY <1>2, <1>7, <1>8, <1>9


LEMMA TurnCounts == SignInTypeOK /\ Turn => turns' \in 0..MaxTurns
  BY SignInAssumption DEF SignInAssumption, SignInTypeOK, Turn

LEMMA TaskFields ==
    /\ \A x \in CallbackTask : x.flow \in Flows /\ x.subject \in Subjects
    /\ \A x \in RefreshTask : x.session \in WebSessions /\ x.token \in Nat
  BY DEF CallbackTask, RefreshTask

(* GET /auth/callback: the row goes to the callback that finds it.         *)
LEMMA CallbackBeginsKeeps ==
    ASSUME OInv, NEW t \in Tasks, NEW f \in Flows, NEW s \in Subjects, CallbackBegins(t, f, s)
    PROVE  OInv'
  <1> DEFINE new == [stage |-> Asking, kind |-> "callback", flow |-> f, subject |-> s,
                     groups |-> NoClaims]
  <1>1. /\ task[t] = IdleTask /\ f \in flows /\ flows' = flows \ {f}
        /\ task' = [task EXCEPT ![t] = new]
        /\ discovery' \in {"cold", "fetching", "known"}
        /\ UNCHANGED <<web, apps, member, idp, turns, exchanges, excused>>
    BY DEF CallbackBegins, FlowTaken, Asked, OInv, RowsOK, SignInTypeOK
  <1>2. /\ new \in CallbackTask /\ new \notin RefreshTask /\ new.flow = f
        /\ new.stage # "answered"
    BY TaskKinds DEF CallbackTask, TaskStages, Asking
  <1>3. TasksOK /\ RowsOK /\ FlowsHeldOnce /\ RefreshesAgree
    BY DEF OInv
  <1> HIDE DEF new
  <1>4. \A u \in Tasks : task'[u] = IF u = t THEN new ELSE task[u]
    BY <1>1, <1>3 DEF TasksOK
  <1>5. TasksOK'
    BY <1>1, <1>2, <1>3, <1>4 DEF TasksOK
  <1>6. RowsOK'
    BY <1>1, <1>3 DEF RowsOK, SignInTypeOK, AppsOK
  <1>7. FlowsHeldOnce'
    BY <1>1, <1>2, <1>3, <1>4 DEF FlowsHeldOnce, FlowUsedOnce
  <1>8. task[t] \notin RefreshTask
    BY <1>1, TaskKinds
  <1>9. RefreshesAgree'
    BY <1>1, <1>2, <1>3, <1>4, <1>8, RefreshesFrame
  <1> QED BY <1>5, <1>6, <1>7, <1>9 DEF OInv

LEMMA CallbackExchangesKeeps ==
    ASSUME OInv, NEW t \in Tasks, CallbackExchanges(t)
    PROVE  OInv'
  <1>1. TasksOK /\ RowsOK /\ FlowsHeldOnce /\ RefreshesAgree
    BY DEF OInv
  <1>2. /\ task[t].stage = "asking" /\ task[t].kind = "callback"
        /\ exchanges' = [exchanges EXCEPT ![task[t].flow] = @ + 1]
        /\ turns' \in 0..MaxTurns
        /\ UNCHANGED <<discovery, flows, web, apps, member, idp, excused>>
    BY <1>1, TurnCounts DEF CallbackExchanges, RowsOK, SignInTypeOK
  <1>3. task[t] \in CallbackTask /\ task[t].flow \in Flows
    BY <1>1, <1>2, TaskKinds, TaskFields DEF TasksOK, IdleTask
  <1>4. PICK new : /\ new = IdleTask \/ (new \in CallbackTask /\ new.stage = "answered"
                                        /\ new.flow = task[t].flow /\ new.groups \in Seq(Groups))
                   /\ task' = [task EXCEPT ![t] = new]
    <2>1. CASE task' = [task EXCEPT ![t] = IdleTask]
      BY <2>1
    <2>2. CASE task' = [task EXCEPT ![t].stage = "answered",
                                    ![t].groups = idp.claims[task[t].subject]]
      <3> DEFINE x == [task[t] EXCEPT !.stage = "answered", !.groups = idp.claims[task[t].subject]]
      <3>1. task' = [task EXCEPT ![t] = x]
        BY <2>2, <1>1 DEF TasksOK
      <3>2. idp.claims[task[t].subject] \in Seq(Groups)
        BY <1>1, <1>3, TaskFields DEF RowsOK
      <3>3. /\ x \in CallbackTask /\ x.stage = "answered" /\ x.flow = task[t].flow
            /\ x.groups \in Seq(Groups)
        BY <1>3, <3>2 DEF CallbackTask, TaskStages
      <3> HIDE DEF x
      <3> QED BY <3>1, <3>3
    <2> QED BY <2>1, <2>2 DEF CallbackExchanges
  <1>5. \A u \in Tasks : task'[u] = IF u = t THEN new ELSE task[u]
    BY <1>1, <1>4 DEF TasksOK
  <1>6. TasksOK'
    BY <1>1, <1>4, <1>5, TaskKinds DEF TasksOK
  <1>7. exchanges' \in [Flows -> Nat] /\ exchanges[task[t].flow] = 0
    BY <1>1, <1>2, <1>3 DEF RowsOK, FlowsHeldOnce
  <1>8. RowsOK'
    BY <1>1, <1>2, <1>7 DEF RowsOK, SignInTypeOK, AppsOK
  <1>9. \A f \in Flows : exchanges'[f] = IF f = task[t].flow THEN 1 ELSE exchanges[f]
    BY <1>1, <1>2, <1>7 DEF RowsOK
  <1>10. FlowsHeldOnce'
    <2>1. FlowUsedOnce' /\ \A f \in flows' : exchanges'[f] = 0
      BY <1>1, <1>2, <1>3, <1>9 DEF FlowsHeldOnce, FlowUsedOnce, RowsOK, SignInTypeOK
    <2>2. ASSUME NEW u \in Tasks, task'[u] \in CallbackTask
          PROVE  /\ task'[u].flow \notin flows'
                 /\ task'[u].stage # "answered" => exchanges'[task'[u].flow] = 0
      <3>1. CASE u = t
        BY <1>1, <1>2, <1>3, <1>4, <1>5, <2>2, <3>1, TaskKinds DEF FlowsHeldOnce
      <3>2. CASE u # t
        <4>1. task'[u] = task[u] /\ task[u].flow # task[t].flow /\ task[u].flow \in Flows
          BY <1>1, <1>3, <1>5, <2>2, <3>2, TaskFields DEF FlowsHeldOnce
        <4> QED BY <1>1, <1>2, <1>9, <2>2, <4>1 DEF FlowsHeldOnce
      <3> QED BY <3>1, <3>2
    <2>3. \A u, v \in Tasks :
            task'[u] \in CallbackTask /\ task'[v] \in CallbackTask /\ task'[u].flow = task'[v].flow
                => u = v
      BY <1>1, <1>3, <1>4, <1>5, TaskKinds DEF FlowsHeldOnce
    <2> QED BY <2>1, <2>2, <2>3 DEF FlowsHeldOnce
  <1>11. RefreshesAgree'
    <2>1. task[t] \notin RefreshTask /\ task'[t] \notin RefreshTask
      BY <1>3, <1>4, <1>5, TaskKinds
    <2> QED BY <1>1, <1>2, <1>5, <2>1, RefreshesFrame
  <1> QED BY <1>6, <1>8, <1>10, <1>11 DEF OInv

(* Claims applied: what they leave of applications and memberships.        *)
LEMMA ApplyClaimsSound ==
    ASSUME RowsOK, NEW s \in Subjects, NEW groups \in Seq(Groups), ApplyClaims(s, groups)
    PROVE  /\ AppsOK(apps') /\ Keeps(apps, apps')
           /\ member' \in [Subjects -> [AppIds -> {"none", "idp", "local"}]]
           /\ \A u \in Subjects, a \in AppIds : member[u][a] = "local" => member'[u][a] = "local"
  <1>1. Mapped(apps, MapGroups(groups))
    BY MapGroupsSound DEF RowsOK
  <1>2. PICK ids : /\ ids \subseteq AppIds
                   /\ member' = [member EXCEPT ![s] = SyncIdpMemberships(@, ids)]
    BY <1>1 DEF ApplyClaims, Mapped
  <1>3. apps' = MapGroups(groups).apps
    BY DEF ApplyClaims
  <1>4. member \in [Subjects -> [AppIds -> {"none", "idp", "local"}]]
    BY DEF RowsOK, SignInTypeOK
  <1>5. \A m \in [AppIds -> {"none", "idp", "local"}] :
           /\ SyncIdpMemberships(m, ids) \in [AppIds -> {"none", "idp", "local"}]
           /\ \A a \in AppIds : m[a] = "local" => SyncIdpMemberships(m, ids)[a] = "local"
    BY DEF SyncIdpMemberships
  <1>6. \A u \in Subjects : member'[u] = IF u = s THEN SyncIdpMemberships(member[s], ids) ELSE member[u]
    BY <1>2, <1>4
  <1>7. member' \in [Subjects -> [AppIds -> {"none", "idp", "local"}]]
    BY <1>2, <1>4, <1>5
  <1>8. \A u \in Subjects, a \in AppIds : member[u][a] = "local" => member'[u][a] = "local"
    BY <1>4, <1>5, <1>6
  <1> QED BY <1>1, <1>3, <1>7, <1>8 DEF Mapped


(* The end of a callback: a session row nobody had before.                 *)
LEMMA CallbackEndsKeeps ==
    ASSUME OInv, NEW t \in Tasks, CallbackEnds(t)
    PROVE  OInv'
  <1>1. TasksOK /\ RowsOK /\ FlowsHeldOnce /\ RefreshesAgree
    BY DEF OInv
  <1>2. /\ task[t].stage = "answered" /\ task[t].kind = "callback"
        /\ ApplyClaims(task[t].subject, task[t].groups)
        /\ task' = [task EXCEPT ![t] = IdleTask]
        /\ UNCHANGED <<discovery, flows, idp, turns, exchanges, excused>>
    BY DEF CallbackEnds
  <1>3. task[t] \in CallbackTask /\ task[t].subject \in Subjects /\ task[t].groups \in Seq(Groups)
    BY <1>1, <1>2, TaskKinds, TaskFields DEF TasksOK, IdleTask
  <1>4. PICK g \in WebSessions :
          /\ web[g].state = "absent"
          /\ web' = [web EXCEPT ![g] = [state |-> "live", subject |-> task[t].subject,
                                        token |-> 0, due |-> FALSE]]
    BY DEF CallbackEnds
  <1>5. PICK new : new = [state |-> "live", subject |-> task[t].subject, token |-> 0, due |-> FALSE]
    OBVIOUS
  <1>6. new \in WebSession /\ new.state = "live" /\ new.token = 0
    BY <1>3, <1>5 DEF WebSession
  <1>7. web' = [web EXCEPT ![g] = new]
    BY <1>4, <1>5
  <1>8. /\ \A h \in WebSessions : web'[h] = IF h = g THEN new ELSE web[h]
        /\ web' \in [WebSessions -> {NoWebSession} \cup WebSession]
    BY <1>1, <1>6, <1>7 DEF RowsOK
  <1>9. \A u \in Tasks : task'[u] = IF u = t THEN IdleTask ELSE task[u]
    BY <1>1, <1>2 DEF TasksOK
  <1>10. TasksOK'
    BY <1>1, <1>2, <1>9, TaskKinds DEF TasksOK
  <1>11. RowsOK'
    <2>1. AppsOK(apps') /\ member' \in [Subjects -> [AppIds -> {"none", "idp", "local"}]]
      BY <1>1, <1>2, <1>3, ApplyClaimsSound
    <2> QED BY <1>1, <1>2, <1>8, <2>1 DEF RowsOK, SignInTypeOK, AppsOK, Application
  <1>12. FlowsHeldOnce'
    BY <1>1, <1>2, <1>9, TaskKinds, FlowsFrame
  <1>13. RefreshesAgree'
    <2>1. idp' = idp /\ excused' = excused /\ idp.token[g] = 0 /\ g \notin excused
      BY <1>1, <1>2, <1>4 DEF RefreshesAgree, SessionHolds
    <2>2. \A u \in Tasks : task[u] \in RefreshTask => task[u].session \in WebSessions /\ task[u].session # g
      BY <1>1, <1>4, TaskFields DEF RefreshesAgree, RefreshHolds
    <2>3. \A u \in Tasks : /\ task'[u] \in RefreshTask <=> task[u] \in RefreshTask
                           /\ task'[u] \in RefreshTask => task'[u] = task[u]
      BY <1>3, <1>9, TaskKinds
    <2>4. idp'.ended \subseteq excused'
      BY <1>1, <2>1 DEF RefreshesAgree
    <2>5. \A h \in WebSessions : SessionHolds(h, web'[h], idp'.token[h], excused')
      BY <1>1, <1>6, <1>8, <2>1 DEF RefreshesAgree, SessionHolds
    <2>6. ASSUME NEW u \in Tasks, task'[u] \in RefreshTask
          PROVE  RefreshHolds(task'[u], web'[task'[u].session], idp'.token[task'[u].session], excused')
      <3>1. task'[u] = task[u] /\ task[u] \in RefreshTask /\ web'[task[u].session] = web[task[u].session]
        BY <1>8, <2>2, <2>3, <2>6
      <3> QED BY <1>1, <2>1, <3>1 DEF RefreshesAgree
    <2>7. \A u, v \in Tasks :
            task'[u] \in RefreshTask /\ task'[v] \in RefreshTask /\ task'[u].session = task'[v].session
                => u = v
      BY <1>1, <2>3 DEF RefreshesAgree
    <2>8. ASSUME NEW h \in WebSessions, h \notin excused', web'[h].state # "absent", ~Refreshing(h)'
          PROVE  web'[h].token = idp'.token[h]
      <3>1. CASE h = g
        BY <1>6, <1>8, <2>1, <3>1
      <3>2. CASE h # g
        <4>1. ~Refreshing(h)
          BY <2>3, <2>8 DEF Refreshing
        <4> QED BY <1>1, <1>8, <2>1, <2>8, <3>2, <4>1 DEF RefreshesAgree
      <3> QED BY <3>1, <3>2
    <2> QED BY <2>4, <2>5, <2>6, <2>7, <2>8 DEF RefreshesAgree
  <1> QED BY <1>10, <1>11, <1>12, <1>13 DEF OInv

(* Steps after which the refreshes and the tokens of rows are what they    *)
(* were, and at most more sessions are excused.                            *)
LEMMA ExcusedFrame ==
    ASSUME RefreshesAgree, task' = task, idp'.token = idp.token,
           excused \subseteq excused', idp'.ended \subseteq excused',
           \A g \in WebSessions : /\ web'[g].token = web[g].token
                                  /\ web'[g].state = "absent" <=> web[g].state = "absent"
                                  /\ web'[g].state = "ended" => web[g].state = "ended" \/ g \in excused'
                                  /\ web[g].state = "absent" => (g \in excused' <=> g \in excused),
           \A t \in Tasks : task[t] \in RefreshTask => task[t].session \in WebSessions
    PROVE  RefreshesAgree'
  <1>1. \A g \in WebSessions : SessionHolds(g, web'[g], idp'.token[g], excused')
    BY DEF RefreshesAgree, SessionHolds
  <1>2. ASSUME NEW t \in Tasks, task'[t] \in RefreshTask
        PROVE  RefreshHolds(task'[t], web'[task'[t].session], idp'.token[task'[t].session], excused')
    <2>1. /\ RefreshHolds(task[t], web[task[t].session], idp.token[task[t].session], excused)
          /\ task[t].session \in WebSessions
      BY <1>2 DEF RefreshesAgree
    <2> HIDE DEF Ahead
    <2> QED BY <1>2, <2>1 DEF RefreshHolds
  <1>3. ASSUME NEW g \in WebSessions, g \notin excused', web'[g].state # "absent", ~Refreshing(g)'
        PROVE  web'[g].token = idp'.token[g]
    BY <1>3 DEF RefreshesAgree, Refreshing
  <1> QED BY <1>1, <1>2, <1>3 DEF RefreshesAgree

LEMMA RowShapes ==
    ASSUME RowsOK
    PROVE  \A g \in WebSessions : web[g].state # "absent" => web[g] \in WebSession
  BY DEF RowsOK, NoWebSession

LEMMA SessionEditsKeep ==
    ASSUME OInv, NEW g \in WebSessions, ClaimsAge(g) \/ WebLogout(g) \/ IdpEnds(g)
    PROVE  OInv'
  <1>1. TasksOK /\ RowsOK /\ FlowsHeldOnce /\ RefreshesAgree
    BY DEF OInv
  <1>2. /\ web[g].state = "live" /\ turns' \in 0..MaxTurns
        /\ UNCHANGED <<discovery, flows, task, apps, member, exchanges>>
        /\ \/ web' = web
           \/ web' = [web EXCEPT ![g].due = TRUE]
           \/ web' = [web EXCEPT ![g].state = "ended"] /\ g \in excused'
        /\ excused' \in {excused, excused \cup {g}}
        /\ \/ idp' = idp
           \/ idp' = [idp EXCEPT !.ended = @ \cup {g}] /\ g \in excused'
    BY <1>1, TurnCounts DEF ClaimsAge, WebLogout, IdpEnds, RowsOK, SignInTypeOK
  <1>3. web[g] \in WebSession
    BY <1>1, <1>2, RowShapes
  <1>4. PICK new : web' = [web EXCEPT ![g] = new] /\ new \in WebSession /\ new.token = web[g].token
                   /\ (new.state = "live" \/ (new.state = "ended" /\ g \in excused'))
    <2>1. CASE web' = web
      BY <1>1, <1>2, <1>3, <2>1 DEF RowsOK
    <2>2. CASE web' = [web EXCEPT ![g].due = TRUE]
      <3>1. PICK x : x = [web[g] EXCEPT !.due = TRUE]
        OBVIOUS
      <3>2. x \in WebSession /\ x.token = web[g].token /\ x.state = "live"
        BY <1>2, <1>3, <3>1 DEF WebSession
      <3>3. web' = [web EXCEPT ![g] = x]
        BY <2>2, <3>1
      <3> QED BY <3>2, <3>3
    <2>3. CASE web' = [web EXCEPT ![g].state = "ended"] /\ g \in excused'
      <3>1. PICK x : x = [web[g] EXCEPT !.state = "ended"]
        OBVIOUS
      <3>2. x \in WebSession /\ x.token = web[g].token /\ x.state = "ended"
        BY <1>2, <1>3, <3>1 DEF WebSession
      <3>3. web' = [web EXCEPT ![g] = x]
        BY <2>3, <3>1
      <3> QED BY <2>3, <3>2, <3>3
    <2> QED BY <1>2, <2>1, <2>2, <2>3
  <1>5. /\ \A h \in WebSessions : web'[h] = IF h = g THEN new ELSE web[h]
        /\ web' \in [WebSessions -> {NoWebSession} \cup WebSession]
    BY <1>1, <1>4 DEF RowsOK
  <1>6. /\ idp' \in [claims : [Subjects -> Seq(Groups)], token : [WebSessions -> Nat],
                    ended : SUBSET WebSessions]
        /\ idp'.token = idp.token /\ idp'.ended \subseteq idp.ended \cup {g}
        /\ idp'.ended \subseteq excused'
    <2>1. /\ idp \in [claims : [Subjects -> Seq(Groups)], token : [WebSessions -> Nat],
                     ended : SUBSET WebSessions]
          /\ idp.ended \subseteq excused /\ excused \subseteq excused' /\ g \in WebSessions
      BY <1>1, <1>2 DEF RowsOK, RefreshesAgree
    <2>2. CASE idp' = idp
      BY <2>1, <2>2
    <2>3. CASE idp' = [idp EXCEPT !.ended = @ \cup {g}] /\ g \in excused'
      BY <2>1, <2>3
    <2> QED BY <1>2, <2>2, <2>3
  <1>7. RowsOK'
    BY <1>1, <1>2, <1>5, <1>6 DEF RowsOK, SignInTypeOK, AppsOK
  <1>8. TasksOK' /\ FlowsHeldOnce'
    BY <1>1, <1>2 DEF TasksOK, FlowsHeldOnce, FlowUsedOnce
  <1>9. RefreshesAgree'
    BY <1>1, <1>2, <1>4, <1>5, <1>6, TaskFields, ExcusedFrame
  <1> QED BY <1>7, <1>8, <1>9 DEF OInv

(* The provider's new claims and the administrators' edits.                *)
LEMMA EditsKeep ==
    ASSUME OInv,
           \/ \E s \in Subjects, c \in Claims : IdpRegroups(s, c)
           \/ \E a \in AppIds, g \in Groups \cup {NoGroup} :
                 CreateApplication(a, g) \/ BindApplication(a, g)
           \/ \E a \in AppIds : \/ DeleteApplication(a)
                                \/ \E s \in Subjects : GrantMembership(s, a) \/ RevokeMembership(s, a)
    PROVE  OInv'
  <1>1. TasksOK /\ RowsOK /\ FlowsHeldOnce /\ RefreshesAgree
    BY DEF OInv
  <1>2. UNCHANGED <<discovery, flows, task, web, exchanges, excused>> /\ turns' \in 0..MaxTurns
    BY <1>1, TurnCounts DEF IdpRegroups, CreateApplication, BindApplication, DeleteApplication,
       GrantMembership, RevokeMembership, RowsOK
  <1>3. AppsOK(apps')
    <2>1. CASE apps' = apps
      BY <1>1, <2>1 DEF RowsOK, AppsOK
    <2>2. ASSUME NEW a \in AppIds, NEW g \in Groups \cup {NoGroup},
                 CreateApplication(a, g) \/ BindApplication(a, g) \/ DeleteApplication(a)
          PROVE  AppsOK(apps')
      <3>1. PICK x : /\ x \in Application /\ (~x.known => x.group = NoGroup)
                     /\ apps' = [apps EXCEPT ![a] = x]
        <4>1. CASE CreateApplication(a, g)
          <5>1. [known |-> TRUE, group |-> g] \in Application
            BY DEF Application
          <5> QED BY <4>1, <5>1 DEF CreateApplication
        <4>2. CASE DeleteApplication(a)
          <5>1. [known |-> FALSE, group |-> NoGroup] \in Application
            BY DEF Application
          <5> QED BY <4>2, <5>1 DEF DeleteApplication
        <4>3. CASE BindApplication(a, g)
          <5>1. apps[a] \in Application /\ apps[a].known
            BY <1>1, <4>3 DEF RowsOK, AppsOK, BindApplication
          <5>2. PICK x : x = [apps[a] EXCEPT !.group = g]
            OBVIOUS
          <5>3. x \in Application /\ x.known
            BY <5>1, <5>2 DEF Application
          <5>4. apps' = [apps EXCEPT ![a] = x]
            BY <4>3, <5>2 DEF BindApplication
          <5> QED BY <5>3, <5>4
        <4> QED BY <2>2, <4>1, <4>2, <4>3
      <3> QED BY <1>1, <3>1 DEF RowsOK, AppsOK
    <2> QED BY <2>1, <2>2 DEF IdpRegroups, GrantMembership, RevokeMembership
  <1>4. member' \in [Subjects -> [AppIds -> {"none", "idp", "local"}]]
    <2> DEFINE M == [AppIds -> {"none", "idp", "local"}]
    <2>1. member \in [Subjects -> M]
      BY <1>1 DEF RowsOK, SignInTypeOK
    <2>2. \A m \in M, a \in AppIds, v \in {"none", "idp", "local"} : [m EXCEPT ![a] = v] \in M
      OBVIOUS
    <2>3. CASE member' = member
      BY <2>1, <2>3
    <2>4. ASSUME NEW a \in AppIds, DeleteApplication(a) PROVE member' \in [Subjects -> M]
      <3>1. member' = [s \in Subjects |-> [member[s] EXCEPT ![a] = "none"]]
        BY <2>4 DEF DeleteApplication
      <3> HIDE DEF M
      <3> QED BY <2>1, <2>2, <3>1
    <2>5. ASSUME NEW a \in AppIds, NEW s \in Subjects, GrantMembership(s, a) \/ RevokeMembership(s, a)
          PROVE  member' \in [Subjects -> M]
      <3>1. PICK v \in {"none", "idp", "local"} : member' = [member EXCEPT ![s] = [member[s] EXCEPT ![a] = v]]
        BY <2>5 DEF GrantMembership, RevokeMembership
      <3> HIDE DEF M
      <3> QED BY <2>1, <2>2, <3>1
    <2> QED BY <2>3, <2>4, <2>5 DEF IdpRegroups, CreateApplication, BindApplication
  <1>5. /\ idp' \in [claims : [Subjects -> Seq(Groups)], token : [WebSessions -> Nat],
                    ended : SUBSET WebSessions]
        /\ idp'.token = idp.token /\ idp'.ended = idp.ended
    <2>1. ASSUME NEW s \in Subjects, NEW c \in Claims, IdpRegroups(s, c)
          PROVE  /\ idp' \in [claims : [Subjects -> Seq(Groups)], token : [WebSessions -> Nat],
                              ended : SUBSET WebSessions]
                 /\ idp'.token = idp.token /\ idp'.ended = idp.ended
      <3>1. c \in Seq(Groups)
        BY SignInAssumption DEF SignInAssumption
      <3> QED BY <1>1, <2>1, <3>1 DEF IdpRegroups, RowsOK
    <2>2. CASE idp' = idp
      BY <1>1, <2>2 DEF RowsOK
    <2> QED BY <2>1, <2>2 DEF CreateApplication, BindApplication, DeleteApplication,
       GrantMembership, RevokeMembership
  <1>6. RowsOK'
    BY <1>1, <1>2, <1>3, <1>4, <1>5 DEF RowsOK, SignInTypeOK, AppsOK, Application
  <1>7. TasksOK' /\ FlowsHeldOnce'
    BY <1>1, <1>2 DEF TasksOK, FlowsHeldOnce, FlowUsedOnce
  <1>8. RefreshesAgree'
    BY <1>1, <1>2, <1>5, RefreshesFrame
  <1> QED BY <1>6, <1>7, <1>8 DEF OInv


(* The refresh of a session's claims: it takes the token the row holds,    *)
(* which nobody else is about to present.                                  *)
LEMMA RefreshBeginsKeeps ==
    ASSUME OInv, NEW t \in Tasks, NEW g \in WebSessions, RefreshBegins(t, g)
    PROVE  OInv'
  <1>1. TasksOK /\ RowsOK /\ FlowsHeldOnce /\ RefreshesAgree
    BY DEF OInv
  <1> DEFINE new == [stage |-> Asking, kind |-> "refresh", session |-> g, token |-> web[g].token,
                     outcome |-> "none", groups |-> NoClaims]
  <1>2. /\ task[t] = IdleTask /\ web[g].state = "live" /\ NotInFlight(g)
        /\ task' = [task EXCEPT ![t] = new]
        /\ discovery' \in {"cold", "fetching", "known"}
        /\ UNCHANGED <<flows, web, apps, member, idp, turns, exchanges, excused>>
    BY <1>1 DEF RefreshBegins, Asked, RowsOK, SignInTypeOK
  <1>3. web[g].token \in Nat
    BY <1>1, <1>2, RowShapes DEF WebSession
  <1>4. /\ new \in RefreshTask /\ new \notin CallbackTask /\ new.session = g
        /\ new.token = web[g].token /\ new.stage # "answered"
        /\ new.token + Ahead(new) = new.token
    <2>1. /\ new \in RefreshTask /\ new \notin CallbackTask /\ new.session = g
          /\ new.token = web[g].token /\ new.stage # "answered"
      BY <1>3, TaskKinds DEF RefreshTask, TaskStages, Asking, Outcomes
    <2> HIDE DEF new
    <2>2. Ahead(new) = 0
      BY <2>1 DEF Ahead
    <2>3. new.token + 0 = new.token
      BY <1>3, <2>1
    <2> QED BY <2>1, <2>2, <2>3
  <1> HIDE DEF new
  <1>5. \A u \in Tasks : task'[u] = IF u = t THEN new ELSE task[u]
    BY <1>1, <1>2 DEF TasksOK
  <1>6. \A u \in Tasks : task[u] \in RefreshTask => task[u].session # g
    BY <1>2, TaskKinds DEF NotInFlight
  <1>7. TasksOK'
    BY <1>1, <1>2, <1>4, <1>5 DEF TasksOK
  <1>8. RowsOK'
    BY <1>1, <1>2 DEF RowsOK, SignInTypeOK, AppsOK
  <1>9. FlowsHeldOnce'
    BY <1>1, <1>2, <1>4, <1>5, FlowsFrame
  <1>10. RefreshesAgree'
    <2>1. /\ idp'.ended \subseteq excused'
          /\ \A h \in WebSessions : SessionHolds(h, web'[h], idp'.token[h], excused')
      BY <1>1, <1>2 DEF RefreshesAgree
    <2>2. ASSUME NEW u \in Tasks, task'[u] \in RefreshTask
          PROVE  RefreshHolds(task'[u], web'[task'[u].session], idp'.token[task'[u].session], excused')
      <3>1. CASE u # t
        BY <1>1, <1>2, <1>5, <2>2, <3>1 DEF RefreshesAgree
      <3>2. CASE u = t
        <4>1. g \notin excused => web[g].token = idp.token[g]
          BY <1>1, <1>2, <1>6 DEF RefreshesAgree, Refreshing
        <4>2. idp.token[g] \in Nat
          BY <1>1 DEF RowsOK
        <4>3. RefreshHolds(new, web[g], idp.token[g], excused)
          <5> HIDE DEF Ahead
          <5> QED BY <1>2, <1>3, <1>4, <4>1, <4>2 DEF RefreshHolds
        <4> QED BY <1>2, <1>4, <1>5, <3>2, <4>3
      <3> QED BY <3>1, <3>2
    <2>3. \A u, v \in Tasks :
            task'[u] \in RefreshTask /\ task'[v] \in RefreshTask /\ task'[u].session = task'[v].session
                => u = v
      BY <1>1, <1>4, <1>5, <1>6 DEF RefreshesAgree
    <2>4. ASSUME NEW h \in WebSessions, h \notin excused', web'[h].state # "absent", ~Refreshing(h)'
          PROVE  web'[h].token = idp'.token[h]
      <3>1. ~Refreshing(h)
        BY <1>2, <1>5, <2>4, TaskKinds DEF Refreshing
      <3> QED BY <1>1, <1>2, <2>4, <3>1 DEF RefreshesAgree
    <2> QED BY <2>1, <2>2, <2>3, <2>4 DEF RefreshesAgree
  <1> QED BY <1>7, <1>8, <1>9, <1>10 DEF OInv

(* The provider's answer: refused only what it ended or was lost before.   *)
LEMMA RefreshAsksKeeps ==
    ASSUME OInv, NEW t \in Tasks, RefreshAsks(t)
    PROVE  OInv'
  <1>1. TasksOK /\ RowsOK /\ FlowsHeldOnce /\ RefreshesAgree
    BY DEF OInv
  <1>2. /\ task[t].stage = "asking" /\ task[t].kind = "refresh"
        /\ UNCHANGED <<discovery, flows, web, apps, member, exchanges>>
    BY DEF RefreshAsks
  <1>3. task[t] \in RefreshTask
    BY <1>1, <1>2, TaskKinds DEF TasksOK, IdleTask
  <1>4. PICK g \in WebSessions : g = task[t].session
    BY <1>3, TaskFields
  <1> DEFINE good == g \notin idp.ended /\ task[t].token = idp.token[g]
             Claimed == {NoClaims, idp.claims[web[g].subject]}
             rotated == [idp EXCEPT !.token[g] = @ + 1]
  <1>5. PICK o \in Outcomes, c \in Claimed :
          /\ task' = [task EXCEPT ![t].stage = "answered", ![t].outcome = o, ![t].groups = c]
          /\ \/ o = "refused" /\ ~good /\ UNCHANGED <<idp, turns, excused>>
             \/ o = "ok" /\ good /\ idp' = rotated /\ UNCHANGED <<turns, excused>>
             \/ o = "unavailable" /\ Turn /\ UNCHANGED <<idp, excused>>
             \/ /\ o \in {"unavailable", "another subject"} /\ good /\ Turn
                /\ idp' = rotated /\ excused' = excused \cup {g}
    BY <1>4 DEF RefreshAsks, Outcomes
  <1>6. RefreshHolds(task[t], web[g], idp.token[g], excused)
    BY <1>1, <1>3, <1>4 DEF RefreshesAgree
  <1>7. /\ web[g].state # "absent" /\ idp.ended \subseteq excused
        /\ g \notin excused => web[g].token = task[t].token /\ idp.token[g] = task[t].token
    <2>1. task[t].token + Ahead(task[t]) = task[t].token
      BY <1>2, <1>3, TaskFields DEF Ahead
    <2> HIDE DEF Ahead
    <2>2. idp.ended \subseteq excused
      BY <1>1 DEF RefreshesAgree
    <2> QED BY <1>4, <1>6, <2>1, <2>2 DEF RefreshHolds
  <1>8. /\ idp \in [claims : [Subjects -> Seq(Groups)], token : [WebSessions -> Nat],
                    ended : SUBSET WebSessions]
        /\ web[g].subject \in Subjects
    BY <1>1, <1>7, RowShapes DEF RowsOK, WebSession
  <1>9. c \in Seq(Groups) \cup {NoClaims}
    <2>1. idp.claims \in [Subjects -> Seq(Groups)]
      BY <1>8
    <2>2. idp.claims[web[g].subject] \in Seq(Groups)
      BY <1>8, <2>1
    <2> QED BY <1>5, <2>2
  <1>10. PICK new : new = [task[t] EXCEPT !.stage = "answered", !.outcome = o, !.groups = c]
    OBVIOUS
  <1>11. /\ new \in RefreshTask /\ new.session = g /\ new.token = task[t].token
         /\ new.stage = "answered" /\ new.outcome = o
    BY <1>3, <1>4, <1>9, <1>10 DEF RefreshTask, TaskStages
  <1>12. \A u \in Tasks : task'[u] = IF u = t THEN new ELSE task[u]
    BY <1>1, <1>5, <1>10 DEF TasksOK
  <1>13. task' = [task EXCEPT ![t] = new]
    BY <1>1, <1>5, <1>10 DEF TasksOK
  <1>14. /\ idp' \in [claims : [Subjects -> Seq(Groups)], token : [WebSessions -> Nat],
                      ended : SUBSET WebSessions]
         /\ idp'.ended = idp.ended
         /\ \A h \in WebSessions : h # g => idp'.token[h] = idp.token[h]
         /\ idp'.token[g] = IF idp' = idp THEN idp.token[g] ELSE idp.token[g] + 1
    <2>1. CASE idp' = idp
      BY <1>8, <2>1
    <2>2. CASE idp' # idp
      <3>1. idp' = [idp EXCEPT !.token = [idp.token EXCEPT ![g] = idp.token[g] + 1]]
        BY <1>5, <2>2
      <3>2. PICK tokens : tokens = [idp.token EXCEPT ![g] = idp.token[g] + 1]
        OBVIOUS
      <3>3. /\ tokens \in [WebSessions -> Nat] /\ tokens[g] = idp.token[g] + 1
            /\ \A h \in WebSessions : h # g => tokens[h] = idp.token[h]
        BY <1>8, <3>2
      <3>4. idp' = [idp EXCEPT !.token = tokens]
        BY <3>1, <3>2
      <3> QED BY <1>8, <2>2, <3>3, <3>4
    <2> QED BY <2>1, <2>2
  <1>15. /\ excused' \in {excused, excused \cup {g}} /\ turns' \in 0..MaxTurns
         /\ g \notin excused' =>
               /\ o \notin {"refused", "another subject"}
               /\ idp'.token[g] = task[t].token + Ahead(new)
    <2>1. turns' \in 0..MaxTurns
      BY <1>1, <1>5, TurnCounts DEF RowsOK, SignInTypeOK
    <2>2. excused' \in {excused, excused \cup {g}}
      BY <1>5
    <2>3. ASSUME g \notin excused' PROVE o \notin {"refused", "another subject"}
      BY <1>5, <1>7, <2>3
    <2>4. ASSUME g \notin excused' PROVE idp'.token[g] = task[t].token + Ahead(new)
      <3>1. task[t].token \in Nat /\ idp.token[g] = task[t].token
        BY <1>3, <1>5, <1>7, <2>4, TaskFields
      <3>2. CASE o = "ok"
        <4>1. Ahead(new) = 1
          BY <1>11, <3>2 DEF Ahead
        <4>2. idp' # idp
          <5>1. idp.token[g] \in Nat
            BY <1>8
          <5>2. rotated # idp
            <6>1. PICK tokens : tokens = [idp.token EXCEPT ![g] = idp.token[g] + 1]
              OBVIOUS
            <6>2. tokens[g] # idp.token[g]
              BY <1>8, <5>1, <6>1
            <6>3. rotated.token = tokens
              BY <1>8, <6>1
            <6> HIDE DEF rotated
            <6> QED BY <6>2, <6>3
          <5> HIDE DEF rotated
          <5> QED BY <1>5, <3>2, <5>2
        <4> QED BY <1>14, <3>1, <4>1, <4>2
      <3>3. CASE o # "ok"
        <4>1. Ahead(new) = 0
          BY <1>11, <3>3 DEF Ahead
        <4>2. idp' = idp
          BY <1>5, <2>3, <2>4, <3>3
        <4> QED BY <1>14, <3>1, <4>1, <4>2
      <3> QED BY <3>2, <3>3
    <2> QED BY <2>1, <2>2, <2>3, <2>4
  <1>16. TasksOK'
    BY <1>1, <1>11, <1>12, <1>13, TaskKinds DEF TasksOK
  <1>17. RowsOK'
    BY <1>1, <1>2, <1>14, <1>15 DEF RowsOK, SignInTypeOK, AppsOK
  <1>18. FlowsHeldOnce'
    BY <1>1, <1>2, <1>11, <1>12, TaskKinds, FlowsFrame
  <1>19. RefreshesAgree'
    <2> HIDE DEF Ahead
    <2>1. idp'.ended \subseteq excused'
      BY <1>7, <1>14, <1>15
    <2>2. \A h \in WebSessions : SessionHolds(h, web'[h], idp'.token[h], excused')
      BY <1>1, <1>2, <1>7, <1>14, <1>15 DEF RefreshesAgree, SessionHolds
    <2>3. \A u \in Tasks : /\ task'[u] \in RefreshTask <=> task[u] \in RefreshTask
                           /\ task'[u] \in RefreshTask => task'[u].session = task[u].session
      BY <1>3, <1>4, <1>11, <1>12
    <2>4. ASSUME NEW u \in Tasks, task'[u] \in RefreshTask
          PROVE  RefreshHolds(task'[u], web'[task'[u].session], idp'.token[task'[u].session], excused')
      <3>1. CASE u = t
        <4>1. RefreshHolds(new, web[g], idp'.token[g], excused')
          BY <1>7, <1>11, <1>15 DEF RefreshHolds
        <4> QED BY <1>2, <1>11, <1>12, <3>1, <4>1
      <3>2. CASE u # t
        <4>1. /\ task'[u] = task[u] /\ task[u].session \in WebSessions /\ task[u].session # g
              /\ RefreshHolds(task[u], web[task[u].session], idp.token[task[u].session], excused)
          BY <1>1, <1>3, <1>4, <1>12, <2>4, <3>2, TaskFields DEF RefreshesAgree
        <4>2. idp'.token[task[u].session] = idp.token[task[u].session]
          BY <1>14, <4>1
        <4> QED BY <1>2, <1>15, <4>1, <4>2 DEF RefreshHolds
      <3> QED BY <3>1, <3>2
    <2>5. \A u, v \in Tasks :
            task'[u] \in RefreshTask /\ task'[v] \in RefreshTask /\ task'[u].session = task'[v].session
                => u = v
      BY <1>1, <2>3 DEF RefreshesAgree
    <2>6. ASSUME NEW h \in WebSessions, h \notin excused', web'[h].state # "absent", ~Refreshing(h)'
          PROVE  web'[h].token = idp'.token[h]
      <3>1. h # g /\ ~Refreshing(h)
        BY <1>3, <1>4, <2>3, <2>6 DEF Refreshing
      <3> QED BY <1>1, <1>2, <1>14, <1>15, <2>6, <3>1 DEF RefreshesAgree
    <2> QED BY <2>1, <2>2, <2>4, <2>5, <2>6 DEF RefreshesAgree
  <1> QED BY <1>16, <1>17, <1>18, <1>19 DEF OInv


(* The end of a refresh: the row takes the token the provider moved to.    *)
LEMMA RefreshEndsKeeps ==
    ASSUME OInv, NEW t \in Tasks, RefreshEnds(t)
    PROVE  /\ OInv'
           /\ Keeps(apps, apps')
           /\ \A s \in Subjects, a \in AppIds : member[s][a] = "local" => member'[s][a] = "local"
  <1>1. TasksOK /\ RowsOK /\ FlowsHeldOnce /\ RefreshesAgree
    BY DEF OInv
  <1>2. /\ task[t].stage = "answered" /\ task[t].kind = "refresh"
        /\ task' = [task EXCEPT ![t] = IdleTask]
        /\ UNCHANGED <<discovery, flows, idp, turns, exchanges, excused>>
    BY DEF RefreshEnds
  <1>3. task[t] \in RefreshTask
    BY <1>1, <1>2, TaskKinds DEF TasksOK, IdleTask
  <1>4. PICK g \in WebSessions : g = task[t].session
    BY <1>3, TaskFields
  <1>5. PICK o : o = task[t].outcome
    OBVIOUS
  <1>6. RefreshHolds(task[t], web[g], idp.token[g], excused) /\ task[t].token \in Nat
    BY <1>1, <1>3, <1>4, TaskFields DEF RefreshesAgree
  <1>7. web[g].state # "absent" /\ (o \in {"refused", "another subject"} => g \in excused)
    BY <1>2, <1>4, <1>5, <1>6 DEF RefreshHolds
  <1>8. web[g] \in WebSession
    BY <1>1, <1>7, RowShapes
  <1>9. PICK new : /\ web' = [web EXCEPT ![g] = new] /\ new \in WebSession
                   /\ new.state = "ended" => g \in excused
                   /\ g \notin excused => new.token = idp.token[g]
    <2>1. web[g].state = "ended" => g \in excused
      BY <1>1 DEF RefreshesAgree, SessionHolds
    <2>2. CASE o \in {"refused", "another subject"}
      <3>1. PICK x : x = [web[g] EXCEPT !.state = "ended"]
        OBVIOUS
      <3>2. x \in WebSession
        BY <1>8, <3>1 DEF WebSession
      <3>3. web' = [web EXCEPT ![g].state = "ended"]
        BY <1>4, <1>5, <2>2 DEF RefreshEnds
      <3>4. web' = [web EXCEPT ![g] = x]
        BY <3>1, <3>3
      <3> QED BY <1>7, <2>2, <3>2, <3>4
    <2>3. CASE o = "ok"
      <3>0. PICK n \in Nat : n = task[t].token + 1
        BY <1>6
      <3>1. PICK x : x = [web[g] EXCEPT !.token = n, !.due = FALSE]
        OBVIOUS
      <3>2. x \in WebSession /\ x.state = web[g].state /\ x.token = task[t].token + 1
        BY <1>8, <3>0, <3>1 DEF WebSession
      <3>3. web' = [web EXCEPT ![g].token = task[t].token + 1, ![g].due = FALSE]
        BY <1>4, <1>5, <2>3 DEF RefreshEnds
      <3>4. web' = [web EXCEPT ![g] = x]
        BY <1>1, <3>0, <3>1, <3>3 DEF RowsOK
      <3>5. Ahead(task[t]) = 1
        BY <1>2, <1>5, <2>3 DEF Ahead
      <3>6. g \notin excused => idp.token[g] = task[t].token + 1
        BY <1>4, <1>6, <3>5 DEF RefreshHolds
      <3> QED BY <2>1, <3>2, <3>4, <3>6
    <2>4. CASE o \notin {"refused", "another subject", "ok"}
      <3>1. web' = web
        BY <1>4, <1>5, <2>4 DEF RefreshEnds
      <3>2. web' = [web EXCEPT ![g] = web[g]]
        BY <1>1, <3>1 DEF RowsOK
      <3>3. Ahead(task[t]) = 0
        BY <1>5, <2>4 DEF Ahead
      <3>4. task[t].token + 0 = task[t].token
        BY <1>6
      <3>5. g \notin excused => web[g].token = idp.token[g]
        BY <1>4, <1>6, <3>3, <3>4 DEF RefreshHolds
      <3> QED BY <1>8, <2>1, <3>2, <3>5
    <2> QED BY <2>2, <2>3, <2>4
  <1>10. /\ \A h \in WebSessions : web'[h] = IF h = g THEN new ELSE web[h]
         /\ web' \in [WebSessions -> {NoWebSession} \cup WebSession]
    BY <1>1, <1>9 DEF RowsOK
  <1>11. \A u \in Tasks : task'[u] = IF u = t THEN IdleTask ELSE task[u]
    BY <1>1, <1>2 DEF TasksOK
  <1>12. /\ AppsOK(apps') /\ Keeps(apps, apps')
         /\ member' \in [Subjects -> [AppIds -> {"none", "idp", "local"}]]
         /\ \A s \in Subjects, a \in AppIds : member[s][a] = "local" => member'[s][a] = "local"
    <2>1. CASE task[t].groups # NoClaims
      <3>1. task[t].groups \in Seq(Groups) /\ web[g].subject \in Subjects
        BY <1>3, <1>8, <2>1 DEF RefreshTask, WebSession
      <3>2. ApplyClaims(web[g].subject, task[t].groups)
        BY <1>4, <2>1 DEF RefreshEnds
      <3> QED BY <1>1, <3>1, <3>2, ApplyClaimsSound
    <2>2. CASE task[t].groups = NoClaims
      <3>1. apps' = apps /\ member' = member
        BY <2>2 DEF RefreshEnds
      <3> QED BY <1>1, <3>1 DEF RowsOK, AppsOK, SignInTypeOK, Keeps
    <2> QED BY <2>1, <2>2
  <1>13. TasksOK'
    BY <1>1, <1>2, <1>11, TaskKinds DEF TasksOK
  <1>14. RowsOK'
    BY <1>1, <1>2, <1>10, <1>12 DEF RowsOK, SignInTypeOK, AppsOK, Application
  <1>15. FlowsHeldOnce'
    BY <1>1, <1>2, <1>11, TaskKinds, FlowsFrame
  <1>16. RefreshesAgree'
    <2>1. idp' = idp /\ excused' = excused
      BY <1>2
    <2>2. idp'.ended \subseteq excused'
      BY <1>1, <2>1 DEF RefreshesAgree
    <2>3. new.state # "absent"
      BY <1>9 DEF WebSession
    <2>4. \A h \in WebSessions : SessionHolds(h, web'[h], idp'.token[h], excused')
      BY <1>1, <1>9, <1>10, <2>1, <2>3 DEF RefreshesAgree, SessionHolds
    <2>5. \A u \in Tasks : task'[u] \in RefreshTask =>
             task[u] \in RefreshTask /\ task'[u] = task[u] /\ u # t
      BY <1>11, TaskKinds
    <2>6. ASSUME NEW u \in Tasks, task'[u] \in RefreshTask
          PROVE  RefreshHolds(task'[u], web'[task'[u].session], idp'.token[task'[u].session], excused')
      <3>1. /\ task'[u] = task[u] /\ task[u].session \in WebSessions /\ task[u].session # g
            /\ RefreshHolds(task[u], web[task[u].session], idp.token[task[u].session], excused)
        BY <1>1, <1>3, <1>4, <2>5, <2>6, TaskFields DEF RefreshesAgree
      <3>2. web'[task[u].session] = web[task[u].session]
        BY <1>10, <3>1
      <3> QED BY <2>1, <3>1, <3>2
    <2>7. \A u, v \in Tasks :
            task'[u] \in RefreshTask /\ task'[v] \in RefreshTask /\ task'[u].session = task'[v].session
                => u = v
      BY <1>1, <2>5 DEF RefreshesAgree
    <2>8. ASSUME NEW h \in WebSessions, h \notin excused', web'[h].state # "absent", ~Refreshing(h)'
          PROVE  web'[h].token = idp'.token[h]
      <3>1. CASE h = g
        BY <1>9, <1>10, <2>1, <2>8, <3>1
      <3>2. CASE h # g
        <4>1. ~Refreshing(h)
          BY <1>4, <1>11, <2>8, <3>2 DEF Refreshing
        <4> QED BY <1>1, <1>10, <2>1, <2>8, <3>2, <4>1 DEF RefreshesAgree
      <3> QED BY <3>1, <3>2
    <2> QED BY <2>2, <2>4, <2>6, <2>7, <2>8 DEF RefreshesAgree
  <1> QED BY <1>12, <1>13, <1>14, <1>15, <1>16 DEF OInv

LEMMA OInvNext == OInv /\ [SignInNext]_ovars => OInv'
  <1> SUFFICES ASSUME OInv, [SignInNext]_ovars PROVE OInv'
    OBVIOUS
  <1>1. CASE UNCHANGED ovars
    <2>1. TasksOK' /\ RowsOK' /\ FlowsHeldOnce'
      BY <1>1 DEF ovars, OInv, TasksOK, RowsOK, FlowsHeldOnce, FlowUsedOnce, AppsOK, SignInTypeOK
    <2>2. RefreshesAgree'
      BY <1>1, RefreshesFrame DEF ovars, OInv
    <2> QED BY <2>1, <2>2 DEF OInv
  <1>2. CASE SignInNext
    <2>1. CASE \/ DiscoveryAnswers \/ DiscoveryFails \/ DiscoveryLapses \/ LoginAsks
               \/ \E f \in Flows : StartFlow(f) \/ FlowLapses(f)
      BY <2>1, DiscoveryKeeps
    <2>2. CASE \E t \in Tasks, f \in Flows, s \in Subjects : CallbackBegins(t, f, s)
      BY <2>2, CallbackBeginsKeeps
    <2>3. CASE \E t \in Tasks : CallbackExchanges(t) \/ CallbackEnds(t)
                                \/ RefreshAsks(t) \/ RefreshEnds(t)
      BY <2>3, CallbackExchangesKeeps, CallbackEndsKeeps, RefreshAsksKeeps, RefreshEndsKeeps
    <2>4. CASE \E g \in WebSessions : ClaimsAge(g) \/ WebLogout(g) \/ IdpEnds(g)
                                      \/ \E t \in Tasks : RefreshBegins(t, g)
      BY <2>4, SessionEditsKeep, RefreshBeginsKeeps
    <2>5. CASE \/ \E s \in Subjects, c \in Claims : IdpRegroups(s, c)
               \/ \E a \in AppIds, g \in Groups \cup {NoGroup} :
                     CreateApplication(a, g) \/ BindApplication(a, g)
               \/ \E a \in AppIds : \/ DeleteApplication(a)
                                    \/ \E s \in Subjects : GrantMembership(s, a) \/ RevokeMembership(s, a)
      BY <2>5, EditsKeep
    <2> QED BY <1>2, <2>1, <2>2, <2>3, <2>4, <2>5 DEF SignInNext
  <1> QED BY <1>1, <1>2

(* The invariant holds of every run of sign-in.                            *)
THEOREM SignInInvariant == SignInSpec => []OInv
  BY OInvInit, OInvNext, PTL DEF SignInSpec

(* Whatever requests arrive while a session's claims are due, whatever is  *)
(* replayed, lost or refused: a flow's code is presented at most once      *)
(* (api/auth.ts deletes the row before the exchange) and a session is      *)
(* ended only by somebody, by the provider or by an answer that was lost   *)
(* (auth-oidc.ts, refreshInFlight), never by two refreshes racing.         *)
THEOREM Sessions_Hold == SignInSpec => []SessionsHold
  <1>1. OInv => SessionsHold
    BY DEF OInv, RowsOK, FlowsHeldOnce, RefreshesAgree, SessionHolds, SessionsHold,
           RotationKeepsSession
  <1> QED BY <1>1, SignInInvariant, PTL

(* A step of sign-in takes a granted membership away, or hands a group's   *)
(* application to another group, only by somebody's decision here: what    *)
(* mapGroupsToApplications and syncIdpMemberships write, they add.         *)
THEOREM Grants_Stand == SignInSpec => GrantsStand
  <1> DEFINE KeptHere == \A s \in Subjects, a \in AppIds :
               member[s][a] = "local" /\ member'[s][a] # "local"
                  => RevokeMembership(s, a) \/ DeleteApplication(a)
             BoundHere == \A a \in AppIds :
               apps[a].group # NoGroup /\ apps'[a].group # apps[a].group
                  => DeleteApplication(a) \/ \E g \in Groups \cup {NoGroup} : BindApplication(a, g)
  <1>1. ASSUME OInv, [SignInNext]_ovars PROVE KeptHere /\ BoundHere
    <2>1. ASSUME Keeps(apps, apps'),
                 \A s \in Subjects, a \in AppIds : member[s][a] = "local" => member'[s][a] = "local"
          PROVE  KeptHere /\ BoundHere
      BY <2>1 DEF Keeps
    <2>2. CASE apps' = apps /\ member' = member
      BY <2>1, <2>2 DEF Keeps
    <2>3. ASSUME NEW t \in Tasks, CallbackEnds(t) PROVE KeptHere /\ BoundHere
      <3>1. task[t] \in CallbackTask /\ task[t].subject \in Subjects /\ task[t].groups \in Seq(Groups)
        BY <1>1, <2>3, TaskKinds, TaskFields DEF OInv, TasksOK, CallbackEnds, IdleTask
      <3>2. ApplyClaims(task[t].subject, task[t].groups) /\ RowsOK
        BY <1>1, <2>3 DEF CallbackEnds, OInv
      <3> QED BY <2>1, <3>1, <3>2, ApplyClaimsSound
    <2>4. ASSUME NEW t \in Tasks, RefreshEnds(t) PROVE KeptHere /\ BoundHere
      BY <1>1, <2>1, <2>4, RefreshEndsKeeps
    <2>5. ASSUME NEW a \in AppIds, NEW g \in Groups \cup {NoGroup}, CreateApplication(a, g)
          PROVE  KeptHere /\ BoundHere
      <3>1. apps[a].group = NoGroup
        BY <1>1, <2>5 DEF OInv, RowsOK, AppsOK, CreateApplication
      <3>2. \A x \in AppIds : x # a => apps'[x] = apps[x]
        BY <1>1, <2>5 DEF OInv, RowsOK, AppsOK, CreateApplication
      <3>3. member' = member
        BY <2>5 DEF CreateApplication
      <3> QED BY <2>1, <3>1, <3>2, <3>3 DEF Keeps
    <2>6. ASSUME NEW a \in AppIds, NEW g \in Groups \cup {NoGroup}, BindApplication(a, g)
          PROVE  KeptHere /\ BoundHere
      <3>1. \A x \in AppIds : x # a => apps'[x] = apps[x]
        BY <1>1, <2>6 DEF OInv, RowsOK, AppsOK, BindApplication
      <3>2. member' = member
        BY <2>6 DEF BindApplication
      <3> QED BY <2>6, <3>1, <3>2
    <2>7. ASSUME NEW a \in AppIds, DeleteApplication(a) PROVE KeptHere /\ BoundHere
      <3>1. \A x \in AppIds : x # a => apps'[x] = apps[x]
        BY <1>1, <2>7 DEF OInv, RowsOK, AppsOK, DeleteApplication
      <3>2. \A s \in Subjects : member[s] \in [AppIds -> {"none", "idp", "local"}]
        BY <1>1 DEF OInv, RowsOK, SignInTypeOK
      <3>3. \A s \in Subjects, x \in AppIds : x # a => member'[s][x] = member[s][x]
        BY <2>7, <3>2 DEF DeleteApplication
      <3> QED BY <2>7, <3>1, <3>3
    <2>8. ASSUME NEW s \in Subjects, NEW a \in AppIds, GrantMembership(s, a) \/ RevokeMembership(s, a)
          PROVE  KeptHere /\ BoundHere
      <3>1. apps' = apps
        BY <2>8 DEF GrantMembership, RevokeMembership
      <3>2. member \in [Subjects -> [AppIds -> {"none", "idp", "local"}]]
        BY <1>1 DEF OInv, RowsOK, SignInTypeOK
      <3>3. ASSUME NEW u \in Subjects, NEW x \in AppIds, <<u, x>> # <<s, a>>
            PROVE  member'[u][x] = member[u][x]
        BY <2>8, <3>2, <3>3 DEF GrantMembership, RevokeMembership
      <3>4. GrantMembership(s, a) => member'[s][a] = "local"
        BY <3>2 DEF GrantMembership
      <3> QED BY <2>8, <3>1, <3>3, <3>4
    <2> HIDE DEF KeptHere, BoundHere
    <2> QED BY <1>1, <2>2, <2>3, <2>4, <2>5, <2>6, <2>7, <2>8
         DEF SignInNext, ovars, DiscoveryAnswers, DiscoveryFails, DiscoveryLapses, LoginAsks,
             StartFlow, FlowLapses, CallbackBegins, CallbackExchanges, RefreshAsks, ClaimsAge,
             WebLogout, IdpEnds, RefreshBegins, IdpRegroups
  <1> QED BY <1>1, SignInInvariant, PTL DEF SignInSpec, GrantsStand, LocalGrantsKept, NoHandOver


-----------------------------------------------------------------------------
(* Accounts.  Nothing but the shape of what waits is needed besides the    *)
(* property itself: an edit acts on the row it read only when that row is  *)
(* still the one in the directory, or it is counted as overtaken.          *)
SessionRow == [state : {"absent", "live", "ended"}, user : Users, age : Nat, raced : BOOLEAN]
LoginRequest == [op : {"login"}, user : Users, row : Row, guess : Passwords, age : Nat]
ChangeRequest == [op : {"change"}, user : Users, session : SessionIds, row : Row]
UserRequest == [op : {"reset", "create"}, user : Users]
EditRequest == [op : {"edit"}, user : Users, actor : Users, row : Row]
Waiting == {Idle} \cup LoginRequest \cup ChangeRequest \cup UserRequest \cup EditRequest

DirectoryOK == directory \in [Users -> Row] /\ provider \in [Users -> {"local", "oidc", "dev"}]
RequestsOK == /\ request \in [Requests -> Waiting]
              /\ attempts \in 0..RatePerMinute /\ begun \in 0..MaxBegun
SeatsOK == session \in [SessionIds -> SessionRow] /\ passwordAge \in [Users -> Nat]
           /\ spared \in [Users -> SessionIds \cup {NoSession}]
AInv == DirectoryOK /\ RequestsOK /\ SeatsOK /\ LastAdminKept /\ OnlyTheChangerStays

(* Who may administer, as a matter of one row.                             *)
Stands(w) == w.known /\ ~w.disabled /\ (w.role = "admin" \/ w.idpAdmin)

LEMMA BlankRow == Blank \in Row /\ ~Stands(Blank)
  BY AccountsAssumption DEF AccountsAssumption, Blank, Row, Stands

LEMMA AdminsStand ==
    \A d : EnabledAdmins(d) = {u \in Users : Stands(d[u])}
  BY DEF EnabledAdmins, Stands

LEMMA AdminsGrow ==
    ASSUME LastAdminKept, overtaken \subseteq overtaken',
           \A u \in Users : Stands(directory[u]) => Stands(directory'[u])
    PROVE  LastAdminKept'
  BY AdminsStand DEF LastAdminKept

(* One of several administrators may go.                                   *)
LEMMA OneOfSeveral ==
    ASSUME NEW d, NEW e, NEW u \in Users, ~(Cardinality(EnabledAdmins(d)) <= 1),
           \A v \in Users \ {u} : Stands(d[v]) => Stands(e[v])
    PROVE  EnabledAdmins(e) # {}
  <1> DEFINE A == EnabledAdmins(d)
  <1>1. A \subseteq Users /\ IsFiniteSet(A)
    <2>1. A \subseteq Users /\ IsFiniteSet(Users)
      BY AccountsAssumption DEF AccountsAssumption, EnabledAdmins
    <2> QED BY <2>1, FS_Subset
  <1>2. Cardinality(A) \in Nat
    BY <1>1, FS_CardinalityType
  <1>3. A # {} /\ A # {u}
    <2>1. Cardinality({}) = 0 /\ Cardinality({u}) = 1
      BY FS_EmptySet, FS_Singleton
    <2> HIDE DEF A
    <2>2. Cardinality(A) # 0 /\ Cardinality(A) # 1
      BY <1>2 DEF A
    <2> QED BY <2>1, <2>2
  <1>4. PICK v \in A : v # u
    BY <1>3
  <1>5. v \in EnabledAdmins(e)
    BY <1>1, <1>4, AdminsStand
  <1> QED BY <1>5

(* A row somebody edits.                                                   *)
LEMMA ClaimEdit ==
    ASSUME NEW w \in Row, NEW a \in BOOLEAN, NEW x, x = [w EXCEPT !.known = TRUE, !.idpAdmin = a]
    PROVE  x \in Row /\ (Stands(w) /\ (w.idpAdmin => a) => Stands(x))
  BY DEF Row, Stands

LEMMA NewcomerRow ==
    ASSUME NEW role \in {"member", "admin"}, NEW p \in Passwords \cup {NoPassword},
           NEW m \in BOOLEAN, NEW x,
           x = [Blank EXCEPT !.known = TRUE, !.role = role, !.mustChange = m, !.hash = p]
    PROVE  x \in Row /\ (role = "admin" => Stands(x))
  <1>1. Blank \in Row /\ ~Blank.disabled
    BY BlankRow DEF Blank
  <1> HIDE DEF Blank
  <1> QED BY <1>1 DEF Row, Stands

LEMMA AInvInit == AccountsInit => AInv
  <1> SUFFICES ASSUME AccountsInit PROVE AInv
    OBVIOUS
  <1>1. provider \in [Users -> {"local", "oidc", "dev"}] /\ Founder \in Users
    BY AccountsAssumption DEF AccountsInit, AccountsAssumption
  <1>2. PICK first : /\ first \in Passwords \cup {NoPassword}
                     /\ first = IF provider[Founder] = "local"
                                THEN CHOOSE p \in Passwords : TRUE ELSE NoPassword
    BY AccountsAssumption DEF AccountsAssumption
  <1>3. ASSUME NEW due \in BOOLEAN, NEW w,
               w = [Blank EXCEPT !.known = TRUE, !.role = "admin", !.mustChange = due, !.hash = first]
        PROVE  w \in Row /\ Stands(w)
    BY <1>2, <1>3, NewcomerRow
  <1>4. ASSUME NEW k \in BOOLEAN PROVE [Blank EXCEPT !.known = k] \in Row
    BY BlankRow DEF Row
  <1>5. directory = [u \in Users |->
          IF u = Founder
          THEN [Blank EXCEPT !.known = TRUE, !.role = "admin",
                             !.mustChange = provider[u] = "local", !.hash = first]
          ELSE [Blank EXCEPT !.known = provider[u] = "dev"]]
    <2> HIDE DEF Blank
    <2>1. \A u \in Users : u = Founder =>
             first = IF provider[u] = "local" THEN CHOOSE p \in Passwords : TRUE ELSE NoPassword
      BY <1>2
    <2> QED BY <2>1, Zenon DEF AccountsInit
  <1>6. DirectoryOK /\ Stands(directory[Founder])
    <2>1. PICK due \in BOOLEAN : due = (provider[Founder] = "local")
      OBVIOUS
    <2>2. directory[Founder] \in Row /\ Stands(directory[Founder])
      <3>1. directory[Founder] = [Blank EXCEPT !.known = TRUE, !.role = "admin",
                                               !.mustChange = due, !.hash = first]
        BY <1>1, <1>5, <2>1
      <3> QED BY <1>3, <3>1
    <2>3. \A u \in Users : u # Founder => directory[u] \in Row
      BY <1>4, <1>5
    <2> QED BY <1>1, <1>5, <2>2, <2>3 DEF DirectoryOK
  <1>7. LastAdminKept
    BY <1>1, <1>6, AdminsStand DEF LastAdminKept
  <1>8. Absent \in SessionRow
    BY <1>1 DEF Absent, SessionRow
  <1>9. SeatsOK /\ RequestsOK
    <2>1. 0 \in 0..RatePerMinute /\ 0 \in 0..MaxBegun
      BY AccountsAssumption DEF AccountsAssumption
    <2> QED BY <1>8, <2>1 DEF AccountsInit, SeatsOK, RequestsOK, Waiting
  <1>10. OnlyTheChangerStays
    BY DEF AccountsInit, OnlyTheChangerStays, Absent
  <1> QED BY <1>6, <1>7, <1>9, <1>10 DEF AInv


(* Steps that begin no session and set no password.                        *)
Ended(x) == [x EXCEPT !.state = "ended"]
LEMMA SeatsFrame ==
    ASSUME SeatsOK, OnlyTheChangerStays, UNCHANGED <<passwordAge, spared>>,
           session' = [s \in SessionIds |-> session'[s]],
           \A s \in SessionIds : session'[s] \in {session[s], Ended(session[s])}
    PROVE  SeatsOK' /\ OnlyTheChangerStays'
  <1>1. \A s \in SessionIds : /\ session'[s] \in SessionRow
                              /\ session'[s] = session[s] \/ session'[s].state # "live"
    BY DEF SeatsOK, SessionRow, Ended
  <1>2. SeatsOK'
    BY <1>1 DEF SeatsOK
  <1>3. OnlyTheChangerStays'
    BY <1>1 DEF OnlyTheChangerStays
  <1> QED BY <1>2, <1>3

LEMMA RevokedAreEnded ==
    ASSUME NEW u, NEW except, session' = RevokeSessionsOf(u, except)
    PROVE  /\ session' = [s \in SessionIds |-> session'[s]]
           /\ \A s \in SessionIds : session'[s] \in {session[s], Ended(session[s])}
  BY DEF RevokeSessionsOf, Ended

LEMMA SeatEnds ==
    ASSUME SeatsOK, NEW s \in SessionIds, session' = [session EXCEPT ![s].state = "ended"]
    PROVE  /\ session' = [x \in SessionIds |-> session'[x]]
           /\ \A x \in SessionIds : session'[x] \in {session[x], Ended(session[x])}
  BY DEF SeatsOK, Ended

(* A session begins with the age its sign-in saw, and is marked when that  *)
(* is not the password's any more.                                         *)
LEMMA SeatBegins ==
    ASSUME SeatsOK, OnlyTheChangerStays, UNCHANGED <<passwordAge, spared>>,
           NEW u \in Users, NEW age \in Nat, CreateSession(u, age)
    PROVE  SeatsOK' /\ OnlyTheChangerStays'
  <1>1. PICK s \in SessionIds : session' = [session EXCEPT ![s] =
             [state |-> "live", user |-> u, age |-> age, raced |-> age # passwordAge[u]]]
    BY DEF CreateSession
  <1>2. PICK raced \in BOOLEAN : raced = (age # passwordAge[u])
    OBVIOUS
  <1>3. PICK new : new = [state |-> "live", user |-> u, age |-> age, raced |-> raced]
    OBVIOUS
  <1>4. new \in SessionRow /\ new.user = u /\ new.age = age /\ (~new.raced => age = passwordAge[u])
    BY <1>2, <1>3 DEF SessionRow
  <1>5. session' = [session EXCEPT ![s] = new]
    BY <1>1, <1>2, <1>3
  <1>6. \A x \in SessionIds : session'[x] = IF x = s THEN new ELSE session[x]
    BY <1>5 DEF SeatsOK
  <1>7. SeatsOK'
    BY <1>4, <1>5 DEF SeatsOK
  <1>8. OnlyTheChangerStays'
    <2> SUFFICES ASSUME NEW x \in SessionIds, session'[x].state = "live", ~session'[x].raced,
                        session'[x].age < passwordAge[session'[x].user]
                 PROVE  spared[session'[x].user] = x
      BY DEF OnlyTheChangerStays
    <2>1. CASE x = s
      <3>1. passwordAge[u] \in Nat
        BY DEF SeatsOK
      <3> QED BY <1>4, <1>6, <2>1, <3>1
    <2>2. CASE x # s
      BY <1>6, <2>2 DEF OnlyTheChangerStays
    <2> QED BY <2>1, <2>2
  <1> QED BY <1>7, <1>8

(* A password is set: every session of its user but the one spared ends.   *)
LEMMA SeatsAfterPassword ==
    ASSUME SeatsOK, OnlyTheChangerStays, NEW u \in Users, NEW kept \in SessionIds \cup {NoSession},
           passwordAge' = [passwordAge EXCEPT ![u] = @ + 1],
           session' = RevokeSessionsOf(u, kept), spared' = [spared EXCEPT ![u] = kept]
    PROVE  SeatsOK' /\ OnlyTheChangerStays'
  <1>1. \A s \in SessionIds :
          /\ session'[s] \in SessionRow /\ session'[s].user = session[s].user
          /\ session'[s].state = "live" => session'[s] = session[s] /\ (session[s].user = u => s = kept)
    BY DEF RevokeSessionsOf, SeatsOK, SessionRow
  <1>2. session' = [s \in SessionIds |-> session'[s]]
    BY DEF RevokeSessionsOf
  <1>3. passwordAge' \in [Users -> Nat] /\ spared' \in [Users -> SessionIds \cup {NoSession}]
    BY DEF SeatsOK
  <1>4. \A v \in Users : /\ v # u => passwordAge'[v] = passwordAge[v] /\ spared'[v] = spared[v]
                         /\ v = u => spared'[v] = kept
    BY DEF SeatsOK
  <1>5. SeatsOK'
    BY <1>1, <1>2, <1>3 DEF SeatsOK
  <1>6. OnlyTheChangerStays'
    <2> SUFFICES ASSUME NEW x \in SessionIds, session'[x].state = "live", ~session'[x].raced,
                        session'[x].age < passwordAge'[session'[x].user]
                 PROVE  spared'[session'[x].user] = x
      BY DEF OnlyTheChangerStays
    <2>1. session'[x] = session[x] /\ session[x].user \in Users
      BY <1>1 DEF SeatsOK, SessionRow
    <2>2. CASE session[x].user = u
      BY <1>1, <1>4, <2>1, <2>2
    <2>3. CASE session[x].user # u
      BY <1>4, <2>1, <2>3 DEF OnlyTheChangerStays
    <2> QED BY <2>2, <2>3
  <1> QED BY <1>5, <1>6

-----------------------------------------------------------------------------
(* Requests that begin: what they hold is what they read.                  *)
LEMMA RequestKinds ==
    ASSUME NEW q \in Waiting
    PROVE  /\ q.op = "login" => q \in LoginRequest
           /\ q.op = "change" => q \in ChangeRequest
           /\ q.op \in {"reset", "create"} => q \in UserRequest
           /\ q.op = "edit" => q \in EditRequest
  BY DEF Waiting, Idle, LoginRequest, ChangeRequest, UserRequest, EditRequest

LEMMA BeginsOK ==
    ASSUME RequestsOK, NEW r \in Requests, NEW held \in Waiting, Begin(r, held),
           attempts' \in 0..RatePerMinute
    PROVE  RequestsOK'
  <1>1. begun' \in 0..MaxBegun
    BY AccountsAssumption DEF AccountsAssumption, RequestsOK, Begin
  <1> QED BY <1>1 DEF RequestsOK, Begin

LEMMA EndsOK ==
    ASSUME RequestsOK, NEW r \in Requests, End(r), UNCHANGED <<attempts, begun>>
    PROVE  RequestsOK'
  <1>1. Idle \in Waiting
    BY DEF Waiting
  <1> QED BY <1>1 DEF RequestsOK, End

LEMMA NothingWritten ==
    ASSUME AInv, UNCHANGED <<provider, directory, session, passwordAge, spared, overtaken>>, RequestsOK'
    PROVE  AInv'
  BY DEF AInv, DirectoryOK, SeatsOK, LastAdminKept, OnlyTheChangerStays, EnabledAdmins

LEMMA BeginningsKeep ==
    ASSUME AInv, NEW r \in Requests,
           \/ \E u \in Users, p \in Passwords : LoginBegin(r, u, p)
           \/ \E s \in SessionIds : ChangeBegin(r, s)
           \/ \E s \in SessionIds, u \in Users :
                 ResetBegin(r, s, u) \/ CreateBegin(r, s, u) \/ EditBegin(r, s, u)
    PROVE  AInv'
  <1>1. DirectoryOK /\ RequestsOK /\ SeatsOK
    BY DEF AInv
  <1>2. attempts' \in 0..RatePerMinute
    <2>1. attempts \in 0..RatePerMinute /\ RatePerMinute \in Nat
      BY <1>1, AccountsAssumption DEF AccountsAssumption, RequestsOK
    <2>2. attempts' = attempts \/ (attempts < RatePerMinute /\ attempts' = attempts + 1)
      BY DEF LoginBegin, ChangeBegin, ResetBegin, CreateBegin, EditBegin
    <2> QED BY <2>1, <2>2
  <1>3. UNCHANGED <<provider, directory, session, passwordAge, spared, overtaken>>
    BY DEF LoginBegin, ChangeBegin, ResetBegin, CreateBegin, EditBegin
  <1>4. \A s \in SessionIds : session[s].user \in Users
    BY <1>1 DEF SeatsOK, SessionRow
  <1>5. PICK held \in Waiting : Begin(r, held)
    <2>1. ASSUME NEW u \in Users, NEW p \in Passwords, LoginBegin(r, u, p)
          PROVE  \E held \in Waiting : Begin(r, held)
      <3>1. passwordAge[u] \in Nat /\ directory[u] \in Row
        BY <1>1 DEF SeatsOK, DirectoryOK
      <3>2. [op |-> "login", user |-> u, row |-> directory[u], guess |-> p,
             age |-> passwordAge[u]] \in Waiting /\ Idle \in Waiting
        BY <3>1 DEF Waiting, LoginRequest
      <3> QED BY <2>1, <3>2 DEF LoginBegin
    <2>2. ASSUME NEW s \in SessionIds, ChangeBegin(r, s)
          PROVE  \E held \in Waiting : Begin(r, held)
      <3>1. directory[session[s].user] \in Row
        BY <1>1, <1>4 DEF DirectoryOK
      <3>2. [op |-> "change", user |-> session[s].user, session |-> s,
             row |-> directory[session[s].user]] \in Waiting
        BY <1>4, <3>1 DEF Waiting, ChangeRequest
      <3> QED BY <2>2, <3>2 DEF ChangeBegin
    <2>3. ASSUME NEW s \in SessionIds, NEW u \in Users, ResetBegin(r, s, u) \/ CreateBegin(r, s, u)
          PROVE  \E held \in Waiting : Begin(r, held)
      <3>1. [op |-> "reset", user |-> u] \in Waiting /\ [op |-> "create", user |-> u] \in Waiting
        BY DEF Waiting, UserRequest
      <3> QED BY <2>3, <3>1 DEF ResetBegin, CreateBegin
    <2>4. ASSUME NEW s \in SessionIds, NEW u \in Users, EditBegin(r, s, u)
          PROVE  \E held \in Waiting : Begin(r, held)
      <3>1. directory[u] \in Row
        BY <1>1 DEF DirectoryOK
      <3>2. [op |-> "edit", user |-> u, actor |-> session[s].user, row |-> directory[u]] \in Waiting
        BY <1>4, <3>1 DEF Waiting, EditRequest
      <3> QED BY <2>4, <3>2 DEF EditBegin
    <2> QED BY <2>1, <2>2, <2>3, <2>4
  <1>6. RequestsOK'
    BY <1>1, <1>2, <1>5, BeginsOK
  <1> QED BY <1>3, <1>6, NothingWritten


-----------------------------------------------------------------------------
(* Steps that write one row of the directory and take no standing away.    *)
LEMMA RowWritten ==
    ASSUME DirectoryOK, LastAdminKept, provider' = provider, overtaken \subseteq overtaken',
           NEW u \in Users, NEW w \in Row, directory' = [directory EXCEPT ![u] = w],
           Stands(directory[u]) => Stands(w) \/ overtaken' # {}
    PROVE  DirectoryOK' /\ LastAdminKept'
  <1>1. DirectoryOK' /\ \A v \in Users : directory'[v] = IF v = u THEN w ELSE directory[v]
    BY DEF DirectoryOK
  <1>2. LastAdminKept'
    <2>1. CASE overtaken' # {}
      BY <2>1 DEF LastAdminKept
    <2>2. CASE overtaken' = {}
      BY <1>1, <2>2, AdminsGrow
    <2> QED BY <2>1, <2>2
  <1> QED BY <1>1, <1>2

LEMMA CountsWritten ==
    ASSUME DirectoryOK, LastAdminKept, UNCHANGED <<provider, overtaken>>, NEW u \in Users,
           NEW n \in 0..Threshold, NEW l \in BOOLEAN,
           directory' = [directory EXCEPT ![u].failed = n, ![u].locked = l]
    PROVE  DirectoryOK' /\ LastAdminKept'
  <1>1. PICK v \in Row : v = directory[u]
    BY DEF DirectoryOK
  <1>2. PICK w : w = [v EXCEPT !.failed = n, !.locked = l]
    OBVIOUS
  <1>3. directory' = [directory EXCEPT ![u] = w]
    BY <1>1, <1>2 DEF DirectoryOK
  <1>4. w \in Row /\ (Stands(w) <=> Stands(v))
    BY <1>2 DEF Row, Stands
  <1> QED BY <1>1, <1>3, <1>4, RowWritten

LEMMA PasswordWritten ==
    ASSUME DirectoryOK, LastAdminKept, UNCHANGED <<provider, overtaken>>, NEW u \in Users,
           NEW p \in Passwords, NEW m \in BOOLEAN, SetPassword(u, p, m)
    PROVE  DirectoryOK' /\ LastAdminKept'
  <1>1. PICK v \in Row : v = directory[u]
    BY DEF DirectoryOK
  <1>2. PICK w : w = [v EXCEPT !.hash = p, !.mustChange = m, !.failed = 0, !.locked = FALSE]
    OBVIOUS
  <1>3. directory' = [directory EXCEPT ![u] = w]
    <2>1. directory' = [directory EXCEPT ![u].hash = p, ![u].mustChange = m,
                                         ![u].failed = 0, ![u].locked = FALSE]
      BY DEF SetPassword
    <2>2. directory \in [Users -> Row]
      BY DEF DirectoryOK
    <2> QED BY <1>1, <1>2, <2>1, <2>2, Zenon
  <1>4. w \in Row /\ (Stands(w) <=> Stands(v))
    <2>1. 0 \in 0..Threshold
      BY AccountsAssumption DEF AccountsAssumption
    <2> QED BY <1>2, <2>1 DEF Row, Stands
  <1> QED BY <1>1, <1>3, <1>4, RowWritten

LEMMA LoginEndKeeps ==
    ASSUME AInv, NEW r \in Requests, LoginEnd(r)
    PROVE  AInv'
  <1>1. DirectoryOK /\ RequestsOK /\ SeatsOK /\ LastAdminKept /\ OnlyTheChangerStays
    BY DEF AInv
  <1>2. PICK q : q = request[r]
    OBVIOUS
  <1>3. q \in LoginRequest
    <2>1. q \in Waiting /\ q.op = "login"
      BY <1>1, <1>2 DEF RequestsOK, LoginEnd
    <2> QED BY <2>1, RequestKinds
  <1>4. q.user \in Users /\ q.age \in Nat /\ q.row.failed \in 0..Threshold
    BY <1>3 DEF LoginRequest, Row
  <1>5. /\ End(r) /\ UNCHANGED <<provider, attempts, begun, passwordAge, spared, overtaken>>
        /\ IF q.guess = q.row.hash
           THEN /\ directory' = [directory EXCEPT ![q.user].failed = 0, ![q.user].locked = FALSE]
                /\ CreateSession(q.user, q.age)
           ELSE directory' = RecordFailure(q.user, q.row) /\ UNCHANGED session
    BY <1>2 DEF LoginEnd
  <1>6. RequestsOK'
    BY <1>1, <1>5, EndsOK
  <1>7. CASE q.guess = q.row.hash
    <2>1. 0 \in 0..Threshold /\ FALSE \in BOOLEAN
      BY AccountsAssumption DEF AccountsAssumption
    <2>2. DirectoryOK' /\ LastAdminKept'
      BY <1>1, <1>4, <1>5, <1>7, <2>1, CountsWritten
    <2>3. SeatsOK' /\ OnlyTheChangerStays'
      BY <1>1, <1>4, <1>5, <1>7, SeatBegins
    <2> QED BY <1>6, <2>2, <2>3 DEF AInv
  <1>8. CASE q.guess # q.row.hash
    <2>1. Threshold \in Nat /\ 0 \in 0..Threshold
      BY AccountsAssumption DEF AccountsAssumption
    <2> DEFINE locks == q.row.failed + 1 >= Threshold
    <2>2. directory' = [directory EXCEPT ![q.user].failed = IF locks THEN 0 ELSE q.row.failed + 1,
                                         ![q.user].locked = locks]
      BY <1>5, <1>8 DEF RecordFailure
    <2>3. ~locks => q.row.failed + 1 \in 0..Threshold
      BY <1>4, <2>1
    <2> HIDE DEF locks
    <2>4. PICK n \in 0..Threshold, l \in BOOLEAN :
             directory' = [directory EXCEPT ![q.user].failed = n, ![q.user].locked = l]
      <3>1. CASE locks
        <4>1. locks = TRUE
          BY <3>1
        <4>2. directory' = [directory EXCEPT ![q.user].failed = 0, ![q.user].locked = TRUE]
          BY <2>2, <4>1
        <4> QED BY <2>1, <4>2
      <3>2. CASE ~locks
        <4>1. locks = FALSE
          BY <2>3, <3>2 DEF locks
        <4>2. directory' = [directory EXCEPT ![q.user].failed = q.row.failed + 1, ![q.user].locked = FALSE]
          BY <2>2, <4>1
        <4> QED BY <2>3, <3>2, <4>2
      <3> QED BY <3>1, <3>2
    <2>5. DirectoryOK' /\ LastAdminKept'
      BY <1>1, <1>4, <1>5, <2>4, CountsWritten
    <2>6. SeatsOK' /\ OnlyTheChangerStays'
      BY <1>1, <1>5, <1>8 DEF SeatsOK, OnlyTheChangerStays
    <2> QED BY <1>6, <2>5, <2>6 DEF AInv
  <1> QED BY <1>7, <1>8

LEMMA OtherSignInsKeep ==
    ASSUME AInv, NEW u \in Users, DevLogin(u) \/ \E admin \in BOOLEAN : OidcLogin(u, admin)
    PROVE  AInv'
  <1>1. DirectoryOK /\ RequestsOK /\ SeatsOK /\ LastAdminKept /\ OnlyTheChangerStays
    BY DEF AInv
  <1>2. /\ UNCHANGED <<provider, request, attempts, begun, passwordAge, spared>>
        /\ CreateSession(u, passwordAge[u])
    BY DEF DevLogin, OidcLogin
  <1>3. passwordAge[u] \in Nat
    BY <1>1 DEF SeatsOK
  <1>4. SeatsOK' /\ OnlyTheChangerStays'
    BY <1>1, <1>2, <1>3, SeatBegins
  <1>5. RequestsOK'
    BY <1>1, <1>2 DEF RequestsOK
  <1>6. DirectoryOK' /\ LastAdminKept'
    <2>1. CASE DevLogin(u)
      BY <1>1, <2>1 DEF DevLogin, DirectoryOK, LastAdminKept, EnabledAdmins
    <2>2. ASSUME NEW admin \in BOOLEAN, OidcLogin(u, admin) PROVE DirectoryOK' /\ LastAdminKept'
      <3>1. PICK w : w = [directory[u] EXCEPT !.known = TRUE, !.idpAdmin = admin]
        OBVIOUS
      <3>2. directory[u] \in Row
        BY <1>1 DEF DirectoryOK
      <3>3. directory' = [directory EXCEPT ![u] = w]
        BY <1>1, <2>2, <3>1 DEF OidcLogin, DirectoryOK
      <3>4. w \in Row /\ (Stands(directory[u]) /\ (directory[u].idpAdmin => admin) => Stands(w))
        BY <3>1, <3>2, ClaimEdit
      <3>5. /\ overtaken \subseteq overtaken'
            /\ directory[u].idpAdmin /\ ~admin => overtaken' # {}
        BY <2>2 DEF OidcLogin
      <3> QED BY <1>1, <1>2, <3>3, <3>4, <3>5, RowWritten
    <2> QED BY <2>1, <2>2
  <1> QED BY <1>4, <1>5, <1>6 DEF AInv

LEMMA PasswordsKeep ==
    ASSUME AInv, NEW r \in Requests,
           \/ \E current, next \in Passwords : ChangeEnd(r, current, next)
           \/ \E next \in Passwords : ResetEnd(r, next)
    PROVE  AInv'
  <1>1. DirectoryOK /\ RequestsOK /\ SeatsOK /\ LastAdminKept /\ OnlyTheChangerStays
    BY DEF AInv
  <1>2. End(r) /\ UNCHANGED <<provider, attempts, begun, overtaken>>
    BY DEF ChangeEnd, ResetEnd
  <1>3. RequestsOK'
    BY <1>1, <1>2, EndsOK
  <1>4. CASE UNCHANGED <<directory, passwordAge, session, spared>>
    BY <1>2, <1>3, <1>4, NothingWritten
  <1>5. ASSUME NEW u \in Users, NEW kept \in SessionIds \cup {NoSession}, NEW p \in Passwords,
               NEW m \in BOOLEAN, SetPassword(u, p, m), session' = RevokeSessionsOf(u, kept),
               spared' = [spared EXCEPT ![u] = kept]
        PROVE  AInv'
    <2>1. DirectoryOK' /\ LastAdminKept'
      BY <1>1, <1>2, <1>5, PasswordWritten
    <2>2. passwordAge' = [passwordAge EXCEPT ![u] = @ + 1]
      BY <1>5 DEF SetPassword
    <2>3. SeatsOK' /\ OnlyTheChangerStays'
      BY <1>1, <1>5, <2>2, SeatsAfterPassword
    <2> QED BY <1>3, <2>1, <2>3 DEF AInv
  <1>6. ASSUME NEW current \in Passwords, NEW next \in Passwords, ChangeEnd(r, current, next)
        PROVE  AInv'
    <2>1. PICK q : q = request[r]
      OBVIOUS
    <2>2. q.user \in Users /\ q.session \in SessionIds
      BY <1>1, <1>6, <2>1, RequestKinds DEF RequestsOK, ChangeEnd, ChangeRequest
    <2>3. \/ UNCHANGED <<directory, passwordAge, session, spared>>
          \/ /\ SetPassword(q.user, next, FALSE) /\ session' = RevokeSessionsOf(q.user, q.session)
             /\ spared' = [spared EXCEPT ![q.user] = q.session]
      BY <1>6, <2>1 DEF ChangeEnd
    <2> QED BY <1>4, <1>5, <2>2, <2>3
  <1>7. ASSUME NEW next \in Passwords, ResetEnd(r, next) PROVE AInv'
    <2>1. PICK u : u = request[r].user
      OBVIOUS
    <2>2. u \in Users
      BY <1>1, <1>7, <2>1, RequestKinds DEF RequestsOK, ResetEnd, UserRequest
    <2>3. /\ SetPassword(u, next, TRUE) /\ session' = RevokeSessionsOf(u, NoSession)
          /\ spared' = [spared EXCEPT ![u] = NoSession]
      BY <1>7, <2>1 DEF ResetEnd
    <2> QED BY <1>5, <2>2, <2>3
  <1> QED BY <1>6, <1>7


LEMMA CreateEndKeeps ==
    ASSUME AInv, NEW r \in Requests, NEW role \in {"member", "admin"}, NEW p \in Passwords,
           CreateEnd(r, role, p)
    PROVE  AInv'
  <1>1. DirectoryOK /\ RequestsOK /\ SeatsOK /\ LastAdminKept /\ OnlyTheChangerStays
    BY DEF AInv
  <1>2. PICK u : u = request[r].user
    OBVIOUS
  <1>3. u \in Users
    BY <1>1, <1>2, RequestKinds DEF RequestsOK, CreateEnd, UserRequest
  <1>4. /\ End(r)
        /\ UNCHANGED <<provider, session, attempts, begun, passwordAge, spared, overtaken>>
    BY DEF CreateEnd
  <1>5. RequestsOK'
    BY <1>1, <1>4, EndsOK
  <1>6. CASE directory[u].known
    <2>1. directory' = directory
      BY <1>2, <1>6 DEF CreateEnd
    <2> QED BY <1>4, <1>5, <2>1, NothingWritten
  <1>7. CASE ~directory[u].known
    <2>1. PICK w : w = [Blank EXCEPT !.known = TRUE, !.role = role, !.hash = p, !.mustChange = TRUE]
      OBVIOUS
    <2>2. directory' = [directory EXCEPT ![u] = w]
      BY <1>2, <1>7, <2>1 DEF CreateEnd
    <2>3. w \in Row
      BY <2>1, BlankRow DEF Row
    <2>4. ~Stands(directory[u])
      BY <1>7 DEF Stands
    <2>5. DirectoryOK' /\ LastAdminKept'
      BY <1>1, <1>3, <1>4, <2>2, <2>3, <2>4, RowWritten
    <2>6. SeatsOK' /\ OnlyTheChangerStays'
      BY <1>1, <1>4 DEF SeatsOK, OnlyTheChangerStays
    <2> QED BY <1>5, <2>5, <2>6 DEF AInv
  <1> QED BY <1>6, <1>7

(* PATCH /api/users/:id.  The role is written, then the disabling: of a    *)
(* row nobody changed meanwhile, neither takes the last administrator.     *)
LEMMA EditEndKeeps ==
    ASSUME AInv, NEW r \in Requests, NEW role \in {"member", "admin", "unchanged"},
           NEW disabled \in {"yes", "no", "unchanged"}, EditEnd(r, role, disabled)
    PROVE  AInv'
  <1>1. DirectoryOK /\ RequestsOK /\ SeatsOK /\ LastAdminKept /\ OnlyTheChangerStays
    BY DEF AInv
  <1>2. PICK q : q = request[r]
    OBVIOUS
  <1>3. q.user \in Users /\ q.row \in Row
    <2>1. q \in Waiting /\ q.op = "edit"
      BY <1>1, <1>2 DEF RequestsOK, EditEnd
    <2> QED BY <2>1, RequestKinds DEF EditRequest
  <1>4. PICK u \in Users : u = q.user
    BY <1>3
  <1>5. PICK d : d = AfterRole(q, role)
    OBVIOUS
  <1>6. /\ End(r) /\ UNCHANGED <<provider, attempts, begun, passwordAge, spared>>
        /\ overtaken' = overtaken \cup {x \in {"row"} : q.row # directory[u]}
        /\ IF RoleRefused(q, role) \/ disabled = "unchanged"
              \/ (disabled = "yes" /\ Unreachable(d, q.row, u, q.actor))
           THEN directory' = d
           ELSE directory' = [d EXCEPT ![u].disabled = (disabled = "yes"),
                                       ![u].failed = IF disabled = "yes" THEN @ ELSE 0,
                                       ![u].locked = (disabled = "yes") /\ @]
        /\ \/ session' = RevokeSessionsOf(u, NoSession)
           \/ session' = session
    BY <1>2, <1>4, <1>5 DEF EditEnd
  <1>7. RequestsOK'
    BY <1>1, <1>6, EndsOK
  <1>8. SeatsOK' /\ OnlyTheChangerStays'
    <2>1. CASE session' = RevokeSessionsOf(u, NoSession)
      BY <1>1, <1>6, <2>1, RevokedAreEnded, SeatsFrame
    <2>2. CASE session' = session
      BY <1>1, <1>6, <2>2 DEF SeatsOK, OnlyTheChangerStays
    <2> QED BY <1>6, <2>1, <2>2
  <1>9. PICK old \in Row : old = directory[u]
    BY <1>1 DEF DirectoryOK
  <1>10. PICK mid : /\ d = [directory EXCEPT ![u] = mid] /\ mid \in Row
                    /\ mid = old \/ (role # "unchanged" /\ ~RoleRefused(q, role)
                                     /\ mid = [old EXCEPT !.role = role])
    <2>1. CASE role = "unchanged" \/ RoleRefused(q, role)
      <3>1. d = directory
        BY <1>5, <2>1 DEF AfterRole
      <3>2. d = [directory EXCEPT ![u] = old]
        BY <1>1, <1>9, <3>1 DEF DirectoryOK
      <3> QED BY <3>2
    <2>2. CASE ~(role = "unchanged" \/ RoleRefused(q, role))
      <3>1. d = [directory EXCEPT ![u].role = role]
        BY <1>4, <1>5, <2>2 DEF AfterRole
      <3>2. PICK x : x = [old EXCEPT !.role = role]
        OBVIOUS
      <3>3. d = [directory EXCEPT ![u] = x]
        BY <1>9, <3>1, <3>2
      <3>4. x \in Row
        BY <2>2, <3>2 DEF Row
      <3> QED BY <2>2, <3>2, <3>3, <3>4
    <2> QED BY <2>1, <2>2
  <1>11. /\ d \in [Users -> Row] /\ d[u] = mid
         /\ \A v \in Users \ {u} : d[v] = directory[v]
    BY <1>1, <1>10 DEF DirectoryOK
  <1>12. /\ mid.locked = old.locked /\ mid.failed = old.failed
         /\ mid.disabled = old.disabled /\ mid.known = old.known /\ mid.idpAdmin = old.idpAdmin
         /\ mid.role = old.role \/ (mid.role = role /\ role # "unchanged" /\ ~RoleRefused(q, role))
    BY <1>10 DEF Row
  <1>13. PICK new : /\ directory' = [directory EXCEPT ![u] = new] /\ new \in Row
                    /\ \/ new = mid
                       \/ /\ new.known = mid.known /\ new.role = mid.role
                          /\ new.idpAdmin = mid.idpAdmin
                          /\ \/ ~new.disabled
                             \/ ~RoleRefused(q, role) /\ ~Unreachable(d, q.row, u, q.actor)
    <2>1. CASE directory' = d
      BY <1>10, <2>1
    <2>2. CASE directory' # d
      <3>1. ASSUME NEW on \in BOOLEAN, NEW n \in 0..Threshold, NEW l \in BOOLEAN,
                   directory' = [d EXCEPT ![u].disabled = on, ![u].failed = n, ![u].locked = l],
                   ~on \/ (~RoleRefused(q, role) /\ ~Unreachable(d, q.row, u, q.actor)),
                   NEW x, x = [mid EXCEPT !.disabled = on, !.failed = n, !.locked = l]
            PROVE  /\ directory' = [directory EXCEPT ![u] = x] /\ x \in Row
                   /\ x.known = mid.known /\ x.role = mid.role /\ x.idpAdmin = mid.idpAdmin
                   /\ x.disabled = on
        <4>1. x \in Row /\ x.known = mid.known /\ x.role = mid.role /\ x.idpAdmin = mid.idpAdmin
              /\ x.disabled = on
          BY <1>10, <3>1 DEF Row
        <4>2. directory' = [d EXCEPT ![u] = x]
          BY <1>11, <3>1, Zenon
        <4>3. [d EXCEPT ![u] = x] = [directory EXCEPT ![u] = x]
          BY <1>1, <1>10 DEF DirectoryOK
        <4> QED BY <4>1, <4>2, <4>3
      <3>2. mid.failed \in 0..Threshold /\ mid.locked \in BOOLEAN /\ 0 \in 0..Threshold
        BY <1>10, AccountsAssumption DEF AccountsAssumption, Row
      <3>3. CASE disabled = "yes"
        <4>1. directory' = [d EXCEPT ![u].disabled = TRUE, ![u].failed = mid.failed,
                                     ![u].locked = mid.locked]
          BY <1>6, <1>11, <2>2, <3>2, <3>3
        <4>2. ~RoleRefused(q, role) /\ ~Unreachable(d, q.row, u, q.actor)
          BY <1>6, <2>2, <3>3
        <4>3. PICK x : x = [mid EXCEPT !.disabled = TRUE, !.failed = mid.failed, !.locked = mid.locked]
          OBVIOUS
        <4> QED BY <3>1, <3>2, <4>1, <4>2, <4>3, ZenonT(40)
      <3>4. CASE disabled # "yes"
        <4>1. directory' = [d EXCEPT ![u].disabled = FALSE, ![u].failed = 0, ![u].locked = FALSE]
          BY <1>6, <2>2, <3>4
        <4>2. PICK x : x = [mid EXCEPT !.disabled = FALSE, !.failed = 0, !.locked = FALSE]
          OBVIOUS
        <4> QED BY <3>1, <3>2, <4>1, <4>2
      <3> QED BY <3>3, <3>4
    <2> QED BY <2>1, <2>2
  <1>14. DirectoryOK'
    BY <1>1, <1>6, <1>13 DEF DirectoryOK
  <1>15. LastAdminKept'
    <2> SUFFICES ASSUME overtaken' = {} PROVE EnabledAdmins(directory') # {}
      BY DEF LastAdminKept
    <2>1. q.row = old /\ EnabledAdmins(directory) # {}
      BY <1>1, <1>6, <1>9 DEF LastAdminKept
    <2>2. /\ directory'[u] = new /\ \A v \in Users \ {u} : directory'[v] = directory[v]
      BY <1>1, <1>13 DEF DirectoryOK
    <2>3. CASE ~Stands(old)
      <3>1. PICK v \in Users : Stands(directory[v])
        BY <2>1, AdminsStand
      <3>2. v # u
        BY <1>9, <2>3, <3>1
      <3> QED BY <2>2, <3>1, <3>2, AdminsStand
    <2>4. CASE Stands(old) /\ Stands(new)
      BY <2>2, <2>4, AdminsStand
    <2>5. CASE Stands(old) /\ ~Stands(new)
      <3>1. IsAdmin(q.row)
        BY <2>1, <2>5 DEF IsAdmin, Stands
      <3>2. CASE ~Stands(mid)
        <4>1. role = "member" /\ old.role = "admin" /\ ~RoleRefused(q, role)
          BY <1>12, <2>5, <3>2 DEF Stands, Row
        <4>2. ~(Cardinality(EnabledAdmins(directory)) <= 1)
          BY <2>1, <3>1, <4>1 DEF RoleRefused, Unreachable
        <4> QED BY <2>2, <4>2, OneOfSeveral
      <3>3. CASE Stands(mid)
        <4>1. ~Unreachable(d, q.row, u, q.actor)
          BY <1>13, <2>5, <3>3 DEF Stands
        <4>2. ~(Cardinality(EnabledAdmins(d)) <= 1)
          BY <3>1, <4>1 DEF Unreachable
        <4> QED BY <1>11, <2>2, <4>2, OneOfSeveral
      <3> QED BY <3>2, <3>3
    <2> QED BY <2>3, <2>4, <2>5
  <1> QED BY <1>7, <1>8, <1>14, <1>15 DEF AInv


LEMMA EndingsKeep ==
    ASSUME AInv,
           \/ \E s \in SessionIds : Logout(s) \/ RevokeAllMine(s) \/ SessionLapses(s)
           \/ \E s \in SessionIds, u \in Users : SignOutUser(s, u)
           \/ \E s, other \in SessionIds : RevokeMine(s, other)
    PROVE  AInv'
  <1>1. DirectoryOK /\ RequestsOK /\ SeatsOK /\ LastAdminKept /\ OnlyTheChangerStays
    BY DEF AInv
  <1>2. UNCHANGED <<provider, directory, request, attempts, begun, passwordAge, spared, overtaken>>
    BY DEF Logout, RevokeAllMine, SessionLapses, SignOutUser, RevokeMine
  <1>3. \/ \E u, except : session' = RevokeSessionsOf(u, except)
        \/ \E s \in SessionIds : session' = [session EXCEPT ![s].state = "ended"]
    BY DEF Logout, RevokeAllMine, SessionLapses, SignOutUser, RevokeMine
  <1>4. SeatsOK' /\ OnlyTheChangerStays'
    BY <1>1, <1>2, <1>3, RevokedAreEnded, SeatEnds, SeatsFrame
  <1>5. DirectoryOK' /\ RequestsOK' /\ LastAdminKept'
    BY <1>1, <1>2 DEF DirectoryOK, RequestsOK, LastAdminKept, EnabledAdmins
  <1> QED BY <1>4, <1>5 DEF AInv

LEMMA TimeKeeps ==
    ASSUME AInv, (\E u \in Users : LockLapses(u)) \/ MinutePasses \/ AccountsRestart
    PROVE  AInv'
  <1>1. DirectoryOK /\ RequestsOK /\ SeatsOK /\ LastAdminKept /\ OnlyTheChangerStays
    BY DEF AInv
  <1>2. SeatsOK' /\ OnlyTheChangerStays'
    BY <1>1 DEF LockLapses, MinutePasses, AccountsRestart, SeatsOK, OnlyTheChangerStays
  <1>3. 0 \in 0..RatePerMinute /\ Idle \in Waiting
    BY AccountsAssumption DEF AccountsAssumption, Waiting
  <1>4. RequestsOK'
    <2>1. \/ request' = request /\ attempts' = attempts
          \/ request' = request /\ attempts' = 0
          \/ request' = [r \in Requests |-> Idle] /\ attempts' = 0
      BY DEF LockLapses, MinutePasses, AccountsRestart
    <2>2. begun' = begun
      BY DEF LockLapses, MinutePasses, AccountsRestart
    <2> QED BY <1>1, <1>3, <2>1, <2>2 DEF RequestsOK
  <1>5. DirectoryOK' /\ LastAdminKept'
    <2>1. CASE MinutePasses
      BY <1>1, <2>1 DEF MinutePasses, DirectoryOK, LastAdminKept, EnabledAdmins
    <2>2. ASSUME NEW u \in Users, LockLapses(u) PROVE DirectoryOK' /\ LastAdminKept'
      <3>1. PICK v \in Row : v = directory[u]
        BY <1>1 DEF DirectoryOK
      <3>2. PICK w : w = [v EXCEPT !.locked = FALSE]
        OBVIOUS
      <3>3. directory' = [directory EXCEPT ![u] = w] /\ UNCHANGED <<provider, overtaken>>
        BY <2>2, <3>1, <3>2 DEF LockLapses
      <3>4. w \in Row /\ (Stands(w) <=> Stands(v))
        BY <3>2 DEF Row, Stands
      <3> QED BY <1>1, <3>1, <3>3, <3>4, RowWritten
    <2>3. CASE AccountsRestart
      <3>1. \A w \in Row, role \in {"member", "admin"} :
               [w EXCEPT !.disabled = FALSE, !.role = role] \in Row
        BY DEF Row
      <3>2. DirectoryOK'
        BY <1>1, <2>3, <3>1 DEF AccountsRestart, DirectoryOK
      <3>3. LastAdminKept'
        BY <2>3 DEF AccountsRestart, LastAdminKept
      <3> QED BY <3>2, <3>3
    <2> QED BY <2>1, <2>2, <2>3
  <1> QED BY <1>2, <1>4, <1>5 DEF AInv

(* The invariant holds of every run of the directory.                      *)
THEOREM AccountsInvariant == AccountsSpec => []AInv
  <1>1. ASSUME AInv, [AccountsNext]_avars PROVE AInv'
    <2>1. CASE UNCHANGED avars
      <3>1. RequestsOK'
        BY <1>1, <2>1 DEF avars, AInv, RequestsOK
      <3> QED BY <1>1, <2>1, <3>1, NothingWritten DEF avars
    <2>2. CASE AccountsNext
      BY <1>1, <2>2, BeginningsKeep, LoginEndKeeps, OtherSignInsKeep, PasswordsKeep,
         CreateEndKeeps, EditEndKeeps, EndingsKeep, TimeKeeps DEF AccountsNext
    <2> QED BY <1>1, <2>1, <2>2
  <1> QED BY <1>1, AInvInit, PTL DEF AccountsSpec

(* Whatever requests overlap: as long as no edit was made of a row that    *)
(* changed while its body was read, and neither the identity provider nor  *)
(* a development restart decided otherwise, an enabled administrator       *)
(* remains (assertStillReachable); and a live session older than its       *)
(* user's password is the one that changed it or was signing in meanwhile  *)
(* (revokeSessionsOf).                                                     *)
THEOREM Accounts_Hold == AccountsSpec => []AccountsHold
  <1>1. AInv => AccountsHold
    BY DEF AInv, AccountsHold, AccountsTypeOK, DirectoryOK, RequestsOK, SeatsOK, SessionRow
  <1> QED BY <1>1, AccountsInvariant, PTL


-----------------------------------------------------------------------------
(* Screens.  Of the portal's screens: one whose question changes in place  *)
(* is given a scope or a skeleton, but for one dialog, and has no guarded  *)
(* form.                                                                   *)
Steady(v) == ~v.reads.picks
Covered(v) == /\ v.reads.scoped \/ v.reads.settled \/ v \in KafkaSubscribe
              /\ v.writes.has => ~v.writes.guarded

LEMMA ReadKinds ==
    /\ \A r \in {Once, Polled, OwnTimer, Settled} : ~r.picks
    /\ \A r \in {Scoped, PickedSettled} : r.scoped \/ r.settled
  BY DEF Once, Polled, OwnTimer, Settled, Scoped, PickedSettled

LEMMA FormKinds ==
    ~NoForm.has /\ \A w \in {Beside, Inside} : ~w.guarded
  BY DEF NoForm, Beside, Inside

LEMMA ViewParts ==
    \A reads, writes : \A v \in View(reads, writes) : v.reads = reads /\ v.writes \in writes
  BY DEF View

LEMMA PortalViews == \A v \in Portal : Steady(v) \/ Covered(v)
  <1> SUFFICES ASSUME NEW v \in Portal PROVE Steady(v) \/ Covered(v)
    OBVIOUS
  <1>1. CASE v \in UNION {LoginView, ForcedPasswordChange, AccountView, UserView, ApplicationsView,
                          ApplicationView, GatewayAdminView, Replicas, GatewaySettingsView, Fleet}
    BY <1>1, ViewParts, ReadKinds DEF Steady, LoginView, ForcedPasswordChange, AccountView, UserView,
       ApplicationsView, ApplicationView, GatewayAdminView, Replicas, GatewaySettingsView, Fleet
  <1>2. CASE v \in UNION {GatewayView, CredentialsView, CertificateList, DenyRules,
                          Report, AuditView, ExternalSystemsView}
    BY <1>2, ViewParts, ReadKinds DEF Steady, GatewayView, CredentialsView, CertificateList,
       DenyRules, Report, AuditView, ExternalSystemsView
  <1>3. CASE v \in UNION {MarketListing, SubscribeWizard, ProductsView, SubscriptionView, Entitlements,
                          Subscriptions, SubscribeDialog, Approvals, CallHistory, BodyCapture}
    BY <1>3, ViewParts, ReadKinds DEF Steady, MarketListing, SubscribeWizard, ProductsView,
       SubscriptionView, Entitlements, Subscriptions, SubscribeDialog, Approvals, CallHistory, BodyCapture
  <1>4. CASE v \in UNION {HealthView, NotificationsBell, Mailbox, Catalog, Publish, Editor,
                          RevisionsPanel, KafkaTopics, KafkaCreate, KafkaTopic, KafkaProxy}
    BY <1>4, ViewParts, ReadKinds DEF Steady, HealthView, NotificationsBell, Mailbox, Catalog, Publish,
       Editor, RevisionsPanel, KafkaTopics, KafkaCreate, KafkaTopic, KafkaProxy
  <1>5. CASE v \in UNION {MarketView, DomainSection, GettingStarted, LogsPanel, TelemetryView,
                          Synthetics, DiffCard}
    BY <1>5, ViewParts, ReadKinds, FormKinds DEF Covered, MarketView, DomainSection,
       GettingStarted, LogsPanel, TelemetryView, Synthetics, DiffCard
  <1>6. CASE v \in TrustAnchors \cup GlobalPolicyView
    <2>1. v.reads = [Once EXCEPT !.scoped = TRUE]
      BY <1>6, ViewParts DEF TrustAnchors, GlobalPolicyView
    <2> QED BY <2>1 DEF Steady, Once
  <1>7. CASE v \in FixMePanel
    <2>1. v.reads = [OwnTimer EXCEPT !.scoped = TRUE]
      BY <1>7, ViewParts DEF FixMePanel
    <2> QED BY <2>1 DEF Steady, OwnTimer, Once
  <1>8. CASE v \in AddMember \cup UsersView
    <2>1. v.reads = [Scoped EXCEPT !.settled = TRUE] /\ v.writes \in {NoForm, Beside}
      BY <1>8, ViewParts DEF AddMember, UsersView, CreateUser
    <2> QED BY <2>1, FormKinds DEF Covered, Scoped, Once
  <1>9. CASE v \in Dashboard
    <2>1. v.reads = [Scoped EXCEPT !.polls = "shell"] /\ v.writes = NoForm
      BY <1>9, ViewParts DEF Dashboard
    <2> QED BY <2>1, FormKinds DEF Covered, Scoped, Once
  <1>10. CASE v \in CopyAnchorsForm
    <2>1. v.reads = Scoped /\ v.writes = [Beside EXCEPT !.preview = "locked", !.then = "stay"]
      BY <1>10, ViewParts DEF CopyAnchorsForm
    <2>2. ~v.writes.guarded
      BY <2>1 DEF Beside
    <2> QED BY <2>1, <2>2, ReadKinds DEF Covered, Scoped, Once
  <1>11. CASE v \in Exceptions
    <2>1. v.reads = Scoped /\ v.writes \in {Inside, Beside}
      BY <1>11, ViewParts DEF Exceptions, ExceptionRowView, NewException
    <2> QED BY <2>1, FormKinds DEF Covered, Scoped, Once
  <1>12. CASE v \in SubscriptionForm
    <2>1. v.reads = PickedSettled /\ v.writes = [Beside EXCEPT !.then = "stay"]
      BY <1>12, ViewParts DEF SubscriptionForm
    <2>2. ~v.writes.guarded
      BY <2>1 DEF Beside
    <2> QED BY <2>1, <2>2 DEF Covered, PickedSettled, Once
  <1>13. CASE v \in PlaygroundPanel
    <2>1. v.reads = PickedSettled /\ v.writes = [Inside EXCEPT !.preview = "free", !.then = "none"]
      BY <1>13, ViewParts DEF PlaygroundPanel, Console
    <2>2. ~v.writes.guarded
      BY <2>1 DEF Inside, Beside
    <2> QED BY <2>1, <2>2 DEF Covered, PickedSettled, Once
  <1>14. CASE v \in KafkaSubscribe
    <2>1. v.writes = [Beside EXCEPT !.then = "stay"]
      BY <1>14, ViewParts DEF KafkaSubscribe
    <2>2. ~v.writes.guarded
      BY <2>1 DEF Beside
    <2> QED BY <1>14, <2>2 DEF Covered
  <1> QED BY <1>1, <1>2, <1>3, <1>4, <1>5, <1>6, <1>7, <1>8, <1>9, <1>10, <1>11, <1>12, <1>13,
             <1>14 DEF Portal


(* The inductive invariant of a screen.  At most one read is on the wire,  *)
(* and it is of what the screen is asked for now; a read that is served    *)
(* after a save was acknowledged is not older than it; a content somebody  *)
(* has not heard of keeps the key it went out with; and a guarded form     *)
(* stands on a read that nothing but its own save repeats.                 *)
Flight == [of : Questions, version : SUBSET Nat]
FormState == [mounted : BOOLEAN, text : Texts \cup {Stored}, base : Nat]
Command == [stage : {"sent", "accepted", "refused"}, live : BOOLEAN, text : Texts,
            base : SUBSET Nat, key : Nat]
RecordState == [version : Nat, seen : SUBSET Nat, unacked : SUBSET Texts, twice : BOOLEAN]

ReadsShaped == /\ open \in Portal /\ sel \in Questions
               /\ flights \subseteq Flight /\ shown \in Flight /\ loading \in BOOLEAN
               /\ form \in FormState /\ (~form.mounted => form.text = Stored)
SavesShaped == /\ save = NoSave \/ save \in Command
               /\ record \in RecordState /\ IsFiniteSet(record.seen)
               /\ keys \in [Texts -> Nat] /\ acked \in Nat

ReadsAreAsked ==
    /\ \A f \in flights : f.of = sel
    /\ \A f, g \in flights : f = g
    /\ \/ shown.of = sel \/ open.reads.scoped \/ (open.reads.settled /\ loading)
       \/ open \in KafkaSubscribe
ReadsAreNew ==
    open.writes.has /\ open.writes.then = "reload" =>
        /\ acked <= record.version
        /\ \A f \in flights : \A v \in f.version : acked <= v
        /\ ~loading => \A v \in shown.version : acked <= v
KeysAreKept ==
    open.writes.has /\ open.writes.once =>
        /\ ~record.twice
        /\ \A t \in record.unacked : keys[t] # 0 /\ keys[t] \in record.seen
        /\ save # NoSave => save.key = keys[save.text] /\ save.key # 0
Guards == open.writes.has /\ open.writes.guarded /\ open.writes.inside /\ open.reads.polls = "no"
DraftsStand ==
    /\ open.reads.polls # "shell" => hidden = "no"
    /\ save # NoSave /\ save.stage = "accepted" => record.version # 0
    /\ record.seen # {} => record.version # 0
    /\ Guards /\ form.mounted /\ flights # {} => loading /\ acked # 0

CInv == ReadsShaped /\ SavesShaped /\ ReadsAreAsked /\ ReadsAreNew /\ KeysAreKept /\ DraftsStand

LEMMA FormsMade ==
    /\ Unmounted \in FormState /\ ~Unmounted.mounted /\ Unmounted.text = Stored
    /\ \A v \in Nat : Fresh(v) \in FormState /\ Fresh(v).mounted /\ Fresh(v).text = Stored
  BY DEF Unmounted, Fresh, FormState

LEMMA RemountedForm ==
    ASSUME NEW f \in FormState, ~f.mounted => f.text = Stored, NEW got \in Flight, NEW s,
           NEW busy, NEW m, m = Remounted(f, s, got, busy)
    PROVE  /\ m \in FormState /\ (~m.mounted => m.text = Stored)
           /\ open.writes.has /\ ~open.writes.inside => m = f
  <1>1. CASE m = Unmounted \/ m = f
    BY <1>1, FormsMade DEF Remounted, Drawn
  <1>2. CASE ~(m = Unmounted \/ m = f)
    <2>1. /\ open.writes.has /\ open.writes.inside /\ Drawn(s, got, busy)
          /\ m = Fresh(CHOOSE v \in got.version : TRUE)
      BY <1>2 DEF Remounted
    <2>2. got.version # {} /\ got.version \subseteq Nat
      BY <2>1 DEF Drawn, Flight
    <2> QED BY <2>1, <2>2, FormsMade
  <1>3. open.writes.has /\ ~open.writes.inside => m = f
    BY DEF Remounted
  <1> QED BY <1>1, <1>2, <1>3

LEMMA CInvInit == ScreenInit => CInv
  <1> SUFFICES ASSUME ScreenInit PROVE CInv
    OBVIOUS
  <1>1. [of |-> sel, version |-> {}] \in Flight
    BY DEF ScreenInit, Flight
  <1>2. ReadsShaped
    <2>1. form \in FormState /\ (~form.mounted => form.text = Stored)
      BY FormsMade DEF ScreenInit
    <2> QED BY <1>1, <2>1 DEF ScreenInit, ReadsShaped
  <1>3. SavesShaped
    <2>1. record.seen = {} /\ IsFiniteSet({})
      BY FS_EmptySet DEF ScreenInit
    <2>2. record \in RecordState
      BY DEF ScreenInit, RecordState
    <2> QED BY <2>1, <2>2 DEF ScreenInit, SavesShaped
  <1>4. ReadsAreAsked
    BY <1>1 DEF ScreenInit, ReadsAreAsked
  <1>5. ReadsAreNew
    BY <1>1 DEF ScreenInit, ReadsAreNew
  <1>6. KeysAreKept
    BY DEF ScreenInit, KeysAreKept
  <1>7. DraftsStand
    <2>1. Guards => ~form.mounted
      BY FormsMade DEF ScreenInit, Guards
    <2> QED BY <2>1 DEF ScreenInit, DraftsStand
  <1> QED BY <1>2, <1>3, <1>4, <1>5, <1>6, <1>7 DEF CInv


(* A screen mounted anew, and a screen that reads again.                   *)
LEMMA NewRead ==
    ASSUME NEW s \in Questions, NEW fs, fs = Read(s)
    PROVE  /\ fs \subseteq Flight /\ (\A f \in fs : f.of = s /\ f.version = {})
           /\ \A f, g \in fs : f = g
  BY DEF Read, Flight

LEMMA MountReads ==
    ASSUME CInv, NEW s \in Questions, Mount(s), open' = open
    PROVE  /\ ReadsShaped' /\ ReadsAreAsked'
           /\ acked' <= record'.version => ReadsAreNew'
           /\ Guards' => ~form'.mounted
  <1>1. /\ sel' = s /\ flights' = Read(s) /\ loading' = TRUE
        /\ shown' = [of |-> s, version |-> {}]
        /\ form' = IF open.writes.has /\ ~open.writes.inside THEN Fresh(record.version) ELSE Unmounted
    BY DEF Mount
  <1>2. /\ flights' \subseteq Flight /\ (\A f \in flights' : f.of = s /\ f.version = {})
        /\ \A f, g \in flights' : f = g
    BY <1>1, NewRead
  <1>3. shown' \in Flight /\ shown'.of = s /\ shown'.version = {}
    BY <1>1 DEF Flight
  <1>4. record.version \in Nat /\ open \in Portal
    BY DEF CInv, SavesShaped, RecordState, ReadsShaped
  <1>5. form' \in FormState /\ (~form'.mounted => form'.text = Stored)
    BY <1>1, <1>4, FormsMade
  <1>6. Guards' => ~form'.mounted
    BY <1>1, FormsMade DEF Guards
  <1>7. ReadsShaped'
    BY <1>1, <1>2, <1>3, <1>4, <1>5 DEF ReadsShaped
  <1>8. ReadsAreAsked'
    BY <1>1, <1>2, <1>3 DEF ReadsAreAsked
  <1>9. acked' <= record'.version => ReadsAreNew'
    BY <1>1, <1>2, <1>3 DEF ReadsAreNew
  <1> QED BY <1>6, <1>7, <1>8, <1>9

LEMMA ReloadReads ==
    ASSUME CInv, NEW s \in Questions, NEW f \in FormState, ~f.mounted => f.text = Stored,
           sel' = s, open' = open, Reload(s, f),
           s = sel \/ open.reads.scoped \/ open.reads.settled \/ open \in KafkaSubscribe
    PROVE  /\ ReadsShaped' /\ ReadsAreAsked' /\ loading'
           /\ acked' <= record'.version => ReadsAreNew'
  <1>1. /\ flights' = Read(s) /\ loading' = TRUE /\ shown' = shown
        /\ form' = Remounted(f, s, shown, TRUE)
    BY DEF Reload
  <1>2. /\ flights' \subseteq Flight /\ (\A g \in flights' : g.of = s /\ g.version = {})
        /\ \A g, h \in flights' : g = h
    BY <1>1, NewRead
  <1>3. ReadsShaped /\ ReadsAreAsked
    BY DEF CInv
  <1>4. form' \in FormState /\ (~form'.mounted => form'.text = Stored)
    <2>1. shown \in Flight
      BY <1>3 DEF ReadsShaped
    <2>2. PICK busy : busy = TRUE
      OBVIOUS
    <2>3. form' = Remounted(f, s, shown, busy)
      BY <1>1, <2>2
    <2> QED BY <2>1, <2>3, RemountedForm
  <1>5. ReadsShaped'
    BY <1>1, <1>2, <1>3, <1>4 DEF ReadsShaped
  <1>6. ReadsAreAsked'
    BY <1>1, <1>2, <1>3 DEF ReadsAreAsked
  <1>7. acked' <= record'.version => ReadsAreNew'
    BY <1>1, <1>2 DEF ReadsAreNew
  <1> QED BY <1>1, <1>5, <1>6, <1>7

(* Steps that leave the record, the keys and, but for its screen being     *)
(* left, the command alone.                                                *)
LEMMA SavesFrame ==
    ASSUME CInv, UNCHANGED <<open, record, keys, acked>>, save' \in {save, Orphaned}
    PROVE  /\ SavesShaped' /\ KeysAreKept' /\ (save' # NoSave <=> save # NoSave)
           /\ save' # NoSave /\ save'.stage = "accepted" => record'.version # 0
           /\ record'.seen # {} => record'.version # 0
  <1>1. SavesShaped /\ KeysAreKept /\ DraftsStand
    BY DEF CInv
  <1>2. NoSave \notin Command
    <2>1. NoSave.stage = "none"
      BY DEF NoSave
    <2>2. \A x \in Command : x.stage # "none"
      BY DEF Command
    <2> QED BY <2>1, <2>2
  <1>3. \/ save' = save
        \/ /\ save \in Command /\ save' \in Command /\ save'.key = save.key
           /\ save'.text = save.text /\ save'.stage = save.stage
    <2>1. CASE save = NoSave
      BY <2>1 DEF Orphaned
    <2>2. CASE save # NoSave
      <3>1. save \in Command /\ save' \in {save, [save EXCEPT !.live = FALSE]}
        BY <1>1, <2>2 DEF SavesShaped, Orphaned
      <3>2. PICK x : x = [save EXCEPT !.live = FALSE]
        OBVIOUS
      <3>3. x \in Command /\ x.key = save.key /\ x.text = save.text /\ x.stage = save.stage
        BY <3>1, <3>2 DEF Command
      <3> QED BY <3>1, <3>2, <3>3
    <2> QED BY <2>1, <2>2
  <1>4. SavesShaped'
    BY <1>1, <1>3 DEF SavesShaped
  <1>5. KeysAreKept'
    BY <1>1, <1>2, <1>3 DEF KeysAreKept
  <1> QED BY <1>1, <1>2, <1>3, <1>4, <1>5 DEF DraftsStand

LEMMA ServeKeeps ==
    ASSUME CInv, NEW f \in flights, Serve(f)
    PROVE  CInv'
  <1>1. /\ flights' = (flights \ {f}) \cup {[f EXCEPT !.version = {record.version}]}
        /\ UNCHANGED <<open, sel, shown, loading, form, save, plan, keys, record, acked, asking, hidden>>
    BY DEF Serve
  <1>2. ReadsShaped /\ SavesShaped /\ ReadsAreAsked /\ ReadsAreNew /\ KeysAreKept /\ DraftsStand
    BY DEF CInv
  <1>3. f \in Flight /\ record.version \in Nat
    BY <1>2 DEF ReadsShaped, SavesShaped, RecordState
  <1>4. PICK g : g = [f EXCEPT !.version = {record.version}]
    OBVIOUS
  <1>5. g \in Flight /\ g.of = f.of /\ g.version = {record.version}
    BY <1>3, <1>4 DEF Flight
  <1>6. flights' = {g}
    BY <1>1, <1>2, <1>4 DEF ReadsAreAsked
  <1>7. ReadsShaped'
    BY <1>1, <1>2, <1>5, <1>6 DEF ReadsShaped
  <1>8. ReadsAreAsked'
    BY <1>1, <1>2, <1>5, <1>6 DEF ReadsAreAsked
  <1>9. ReadsAreNew'
    BY <1>1, <1>2, <1>5, <1>6 DEF ReadsAreNew
  <1>10. SavesShaped' /\ KeysAreKept'
    BY <1>1, <1>2 DEF SavesShaped, KeysAreKept
  <1>11. DraftsStand'
    BY <1>1, <1>2 DEF DraftsStand, Guards
  <1> QED BY <1>7, <1>8, <1>9, <1>10, <1>11 DEF CInv

LEMMA OutcomeKeeps ==
    ASSUME CInv, NEW f \in flights, Arrive(f) \/ Fail(f)
    PROVE  /\ CInv'
           /\ open.writes.has /\ ~open.writes.inside => form' = form
  <1>1. ReadsShaped /\ SavesShaped /\ ReadsAreAsked /\ ReadsAreNew /\ KeysAreKept /\ DraftsStand
    BY DEF CInv
  <1>2. f \in Flight /\ f.of = sel
    BY <1>1 DEF ReadsShaped, ReadsAreAsked
  <1>3. PICK version \in SUBSET Nat : Outcome(f, version) /\ version \in {f.version, {}}
    BY <1>2 DEF Arrive, Fail, Flight
  <1>4. /\ flights' = flights \ {f} /\ shown' = [of |-> f.of, version |-> version]
        /\ loading' = FALSE /\ form' = Remounted(form, sel, shown', FALSE)
        /\ UNCHANGED <<open, sel, save, plan, keys, record, acked, asking, hidden>>
    BY <1>3 DEF Outcome
  <1>5. flights' = {}
    BY <1>1, <1>4 DEF ReadsAreAsked
  <1>6. shown' \in Flight /\ shown'.of = sel /\ shown'.version = version
    BY <1>2, <1>3, <1>4 DEF Flight
  <1>7. /\ form' \in FormState /\ (~form'.mounted => form'.text = Stored)
        /\ open.writes.has /\ ~open.writes.inside => form' = form
    <2>1. form \in FormState /\ (~form.mounted => form.text = Stored)
      BY <1>1 DEF ReadsShaped
    <2>2. PICK busy : busy = FALSE
      OBVIOUS
    <2>3. form' = Remounted(form, sel, shown', busy)
      BY <1>4, <2>2
    <2> QED BY <1>6, <2>1, <2>3, RemountedForm
  <1>8. ReadsShaped'
    BY <1>1, <1>4, <1>5, <1>6, <1>7 DEF ReadsShaped
  <1>9. ReadsAreAsked'
    BY <1>4, <1>5, <1>6 DEF ReadsAreAsked
  <1>10. ReadsAreNew'
    BY <1>1, <1>3, <1>4, <1>5, <1>6 DEF ReadsAreNew
  <1>11. SavesShaped' /\ KeysAreKept'
    BY <1>1, <1>4 DEF SavesShaped, KeysAreKept
  <1>12. DraftsStand'
    BY <1>1, <1>4, <1>5 DEF DraftsStand
  <1> QED BY <1>7, <1>8, <1>9, <1>10, <1>11, <1>12 DEF CInv


LEMMA PickReads ==
    ASSUME CInv, \/ \E s \in Questions : Pick(s)
                 \/ TickScreen \/ ComeBack
    PROVE  CInv' /\ (open.reads.polls = "no" /\ open.writes.has => ~open.writes.guarded)
  <1>1. ReadsShaped /\ SavesShaped /\ ReadsAreAsked /\ ReadsAreNew /\ KeysAreKept /\ DraftsStand
    BY DEF CInv
  <1>2. UNCHANGED <<open, save, plan, keys, record, acked, asking>>
    BY DEF Pick, TickScreen, ComeBack
  <1>3. SavesShaped' /\ KeysAreKept'
    BY <1>1, <1>2 DEF SavesShaped, KeysAreKept
  <1>4. open.reads.polls = "no" /\ open.writes.has => ~open.writes.guarded
    <2>1. ASSUME NEW s \in Questions, Pick(s) PROVE open.writes.has => ~open.writes.guarded
      BY <1>1, <2>1, PortalViews DEF Pick, ReadsShaped, Steady, Covered
    <2>2. CASE TickScreen
      BY <2>2 DEF TickScreen
    <2>3. CASE ComeBack
      BY <1>1, <2>3 DEF ComeBack, DraftsStand
    <2> QED BY <2>1, <2>2, <2>3
  <1>5. hidden' \in {hidden, "no"}
    BY DEF Pick, TickScreen, ComeBack
  <1>6. DraftsStand'
    BY <1>1, <1>2, <1>4, <1>5 DEF DraftsStand, Guards
  <1>7. open.writes.has /\ open.writes.then = "reload" => acked <= record.version
    BY <1>1 DEF ReadsAreNew
  <1>8. CASE \E s \in Questions : sel' = s /\ Reload(s, form)
               /\ (s = sel \/ open.reads.scoped \/ open.reads.settled \/ open \in KafkaSubscribe)
    <2>1. ReadsShaped' /\ ReadsAreAsked' /\ (acked' <= record'.version => ReadsAreNew')
      BY <1>1, <1>2, <1>8, ReloadReads DEF ReadsShaped
    <2>2. ReadsAreNew'
      BY <1>2, <1>7, <2>1 DEF ReadsAreNew
    <2> QED BY <1>3, <1>4, <1>6, <2>1, <2>2 DEF CInv
  <1>9. CASE UNCHANGED <<sel, flights, shown, loading, form>>
    <2>1. ReadsShaped' /\ ReadsAreAsked' /\ ReadsAreNew'
      BY <1>1, <1>2, <1>9 DEF ReadsShaped, ReadsAreAsked, ReadsAreNew
    <2> QED BY <1>3, <1>4, <1>6, <2>1 DEF CInv
  <1>10. \/ \E s \in Questions : sel' = s /\ Reload(s, form)
               /\ (s = sel \/ open.reads.scoped \/ open.reads.settled \/ open \in KafkaSubscribe)
         \/ UNCHANGED <<sel, flights, shown, loading, form>>
    <2>1. ASSUME NEW s \in Questions, Pick(s)
          PROVE  /\ sel' = s /\ Reload(s, form)
                 /\ open.reads.scoped \/ open.reads.settled \/ open \in KafkaSubscribe
      BY <1>1, <2>1, PortalViews DEF Pick, ReadsShaped, Steady, Covered
    <2>2. CASE TickScreen
      BY <1>1, <2>2 DEF TickScreen, ReadsShaped
    <2>3. CASE ComeBack
      BY <1>1, <2>3 DEF ComeBack, ReadsShaped
    <2> QED BY <2>1, <2>2, <2>3
  <1> QED BY <1>8, <1>9, <1>10

(* Leaving, asked or not, and the end of the session.                      *)
LEMMA LeavingKeeps ==
    ASSUME CInv, Leave \/ Stay \/ Discard \/ SessionLost
    PROVE  CInv'
  <1>1. ReadsShaped /\ SavesShaped /\ ReadsAreAsked /\ ReadsAreNew /\ KeysAreKept /\ DraftsStand
    BY DEF CInv
  <1>2. UNCHANGED <<open, keys, record, acked, hidden>> /\ save' \in {save, Orphaned}
    BY DEF Leave, Stay, Discard, SessionLost
  <1>3. /\ SavesShaped' /\ KeysAreKept'
        /\ save' # NoSave /\ save'.stage = "accepted" => record'.version # 0
        /\ record'.seen # {} => record'.version # 0
    BY <1>2, SavesFrame
  <1>4. CASE UNCHANGED <<sel, flights, shown, loading, form>>
    <2>1. ReadsShaped' /\ ReadsAreAsked' /\ ReadsAreNew'
      BY <1>1, <1>2, <1>4 DEF ReadsShaped, ReadsAreAsked, ReadsAreNew
    <2>2. DraftsStand'
      BY <1>1, <1>2, <1>3, <1>4 DEF DraftsStand, Guards
    <2> QED BY <1>3, <2>1, <2>2 DEF CInv
  <1>5. CASE \E s \in Questions : Mount(s)
    <2>1. /\ ReadsShaped' /\ ReadsAreAsked' /\ (acked' <= record'.version => ReadsAreNew')
          /\ Guards' => ~form'.mounted
      BY <1>2, <1>5, MountReads
    <2>2. ReadsAreNew'
      BY <1>1, <1>2, <2>1 DEF ReadsAreNew
    <2>3. DraftsStand'
      BY <1>1, <1>2, <1>3, <2>1 DEF DraftsStand
    <2> QED BY <1>3, <2>1, <2>2, <2>3 DEF CInv
  <1> QED BY <1>4, <1>5 DEF Leave, Stay, Discard, SessionLost

(* Typing, previews, the tab and what others change.                       *)
LEMMA TypingKeeps ==
    ASSUME CInv, \/ \E t \in Texts : Edit(t)
                 \/ AskPreview \/ PreviewArrives \/ Hide \/ OthersChange
    PROVE  CInv'
  <1>1. ReadsShaped /\ SavesShaped /\ ReadsAreAsked /\ ReadsAreNew /\ KeysAreKept /\ DraftsStand
    BY DEF CInv
  <1>2. UNCHANGED <<open, sel, flights, shown, loading, save, keys, acked>>
    BY DEF Edit, AskPreview, PreviewArrives, Hide, OthersChange
  <1>3. /\ record' \in RecordState /\ record'.seen = record.seen /\ record'.unacked = record.unacked
        /\ record'.twice = record.twice /\ record.version <= record'.version
        /\ record.version # 0 => record'.version # 0
    <2>1. record \in RecordState
      BY <1>1 DEF SavesShaped
    <2>2. record' = record \/ record' = [record EXCEPT !.version = @ + 1]
      BY DEF Edit, AskPreview, PreviewArrives, Hide, OthersChange
    <2>3. record.version \in Nat
      BY <2>1 DEF RecordState
    <2> QED BY <2>1, <2>2, <2>3 DEF RecordState
  <1>4. /\ form' \in FormState /\ form'.mounted = form.mounted
        /\ ~form'.mounted => form'.text = Stored
    <2>1. form \in FormState
      BY <1>1 DEF ReadsShaped
    <2>2. ASSUME NEW t \in Texts, Edit(t)
          PROVE  form' \in FormState /\ form'.mounted = form.mounted /\ form'.mounted
      BY <2>1, <2>2 DEF Edit, FormState
    <2>3. CASE form' = form
      BY <1>1, <2>3 DEF ReadsShaped
    <2> QED BY <2>2, <2>3 DEF AskPreview, PreviewArrives, Hide, OthersChange
  <1>5. hidden' = hidden \/ open.reads.polls = "shell"
    BY DEF Edit, AskPreview, PreviewArrives, Hide, OthersChange
  <1>6. ReadsShaped' /\ ReadsAreAsked'
    BY <1>1, <1>2, <1>4 DEF ReadsShaped, ReadsAreAsked
  <1>7. SavesShaped' /\ KeysAreKept'
    BY <1>1, <1>2, <1>3 DEF SavesShaped, KeysAreKept
  <1>8. ReadsAreNew'
    <2>1. acked \in Nat /\ record.version \in Nat /\ record'.version \in Nat
      BY <1>1, <1>3 DEF SavesShaped, RecordState
    <2> QED BY <1>1, <1>2, <1>3, <2>1 DEF ReadsAreNew
  <1>9. DraftsStand'
    BY <1>1, <1>2, <1>3, <1>4, <1>5 DEF DraftsStand, Guards
  <1> QED BY <1>6, <1>7, <1>8, <1>9 DEF CInv

(* A random key is never the absence of one.                               *)
LEMMA NewKeyIsOne ==
    ASSUME SavesShaped
    PROVE  NewKey \in Nat /\ NewKey # 0
  <1> DEFINE kept == {keys[t] : t \in Texts}
             held == record.seen \cup kept
             n == Cardinality(record.seen) + Cardinality(Texts) + 1
  <1>1. IsFiniteSet(Texts) /\ IsFiniteSet(record.seen)
    BY ScreenBounds DEF ScreenBounds, SavesShaped
  <1>2. keys \in Surjection(Texts, kept)
    BY DEF SavesShaped, Surjection
  <1>3. IsFiniteSet(kept) /\ Cardinality(kept) <= Cardinality(Texts)
    BY <1>1, <1>2, FS_Surjection
  <1> HIDE DEF kept
  <1>4. /\ IsFiniteSet(held)
        /\ Cardinality(held) = Cardinality(record.seen) + Cardinality(kept)
                                 - Cardinality(record.seen \cap kept)
    BY <1>1, <1>3, FS_Union
  <1>5. IsFiniteSet(record.seen \cap kept)
    BY <1>1, FS_Intersection
  <1>6. /\ Cardinality(record.seen) \in Nat /\ Cardinality(Texts) \in Nat
        /\ Cardinality(kept) \in Nat /\ Cardinality(record.seen \cap kept) \in Nat
    BY <1>1, <1>3, <1>5, FS_CardinalityType
  <1>7. n \in Nat /\ n # 0 /\ Cardinality(held) < n
    BY <1>3, <1>4, <1>6
  <1>8. Cardinality(1..n) = n
    BY <1>7, FS_Interval
  <1> HIDE DEF n
  <1>9. ~(1..n \subseteq held)
    <2> SUFFICES ASSUME 1..n \subseteq held PROVE FALSE
      OBVIOUS
    <2>1. Cardinality(1..n) <= Cardinality(held)
      <3> HIDE DEF held
      <3> QED BY <1>4, FS_Subset
    <2>2. Cardinality(held) \in Nat
      <3> HIDE DEF held
      <3> QED BY <1>4, FS_CardinalityType
    <2> QED BY <1>7, <1>8, <2>1, <2>2
  <1>10. \E k \in 1..n : k \notin record.seen /\ \A t \in Texts : keys[t] # k
    BY <1>9 DEF kept
  <1>11. NewKey \in 1..n
    BY <1>10 DEF NewKey, n
  <1> QED BY <1>7, <1>11


(* The command: sent, served, accepted or lost.                            *)
LEMMA CommandsDiffer == NoSave \notin Command
  <1>1. NoSave.stage = "none"
    BY DEF NoSave
  <1>2. \A x \in Command : x.stage # "none"
    BY DEF Command
  <1> QED BY <1>1, <1>2

LEMMA SaveKeeps ==
    ASSUME CInv, Save \/ SaveFails
    PROVE  CInv'
  <1>1. ReadsShaped /\ SavesShaped /\ ReadsAreAsked /\ ReadsAreNew /\ KeysAreKept /\ DraftsStand
    BY DEF CInv
  <1>2. UNCHANGED <<open, sel, flights, shown, loading, form, plan, record, acked, asking, hidden>>
    BY DEF Save, SaveFails
  <1>3. ReadsShaped' /\ ReadsAreAsked' /\ ReadsAreNew'
    BY <1>1, <1>2 DEF ReadsShaped, ReadsAreAsked, ReadsAreNew
  <1>4. CASE SaveFails
    <2>1. save' = NoSave /\ keys' = keys
      BY <1>4 DEF SaveFails
    <2>2. SavesShaped' /\ KeysAreKept' /\ DraftsStand'
      BY <1>1, <1>2, <2>1 DEF SavesShaped, KeysAreKept, DraftsStand, Guards
    <2> QED BY <1>3, <2>2 DEF CInv
  <1>5. CASE Save
    <2>1. PICK t \in Texts : t = form.text
      BY <1>1, <1>5 DEF Save, ReadsShaped, FormState
    <2>2. PICK k \in Nat : k = (IF open.writes.once THEN KeyFor(t) ELSE 0) /\ (open.writes.once => k # 0)
      <3>1. KeyFor(t) \in Nat /\ KeyFor(t) # 0
        BY <1>1, NewKeyIsOne DEF KeyFor, SavesShaped
      <3> QED BY <3>1
    <2>3. shown.version \in SUBSET Nat
      BY <1>1 DEF ReadsShaped, Flight
    <2>4. PICK new : new = [stage |-> "sent", live |-> TRUE, text |-> t, base |-> shown.version, key |-> k]
      OBVIOUS
    <2>5. save' = new /\ new \in Command /\ new.stage = "sent" /\ new.text = t /\ new.key = k
      BY <1>5, <2>1, <2>2, <2>3, <2>4 DEF Save, Command
    <2>6. keys' = IF open.writes.once THEN [keys EXCEPT ![t] = k] ELSE keys
      BY <1>5, <2>1, <2>2 DEF Save
    <2>7. keys' \in [Texts -> Nat] /\ \A u \in Texts : u # t => keys'[u] = keys[u]
      BY <1>1, <2>2, <2>6 DEF SavesShaped
    <2>8. open.writes.once => keys'[t] = k /\ (keys[t] # 0 => k = keys[t])
      BY <1>1, <2>2, <2>6 DEF SavesShaped, KeyFor
    <2>9. SavesShaped'
      BY <1>1, <1>2, <2>5, <2>7 DEF SavesShaped
    <2>10. KeysAreKept'
      <3> SUFFICES ASSUME open.writes.has, open.writes.once
                   PROVE  /\ ~record.twice
                          /\ \A u \in record.unacked : keys'[u] # 0 /\ keys'[u] \in record.seen
                          /\ save'.key = keys'[save'.text] /\ save'.key # 0
        BY <1>2 DEF KeysAreKept
      <3>1. record.unacked \subseteq Texts
        BY <1>1 DEF SavesShaped, RecordState
      <3>2. ~record.twice /\ \A u \in record.unacked : keys[u] # 0 /\ keys[u] \in record.seen
        BY <1>1 DEF KeysAreKept
      <3>3. \A u \in record.unacked : keys'[u] # 0 /\ keys'[u] \in record.seen
        BY <2>7, <2>8, <3>1, <3>2
      <3> QED BY <2>2, <2>5, <2>8, <3>2, <3>3
    <2>11. DraftsStand'
      BY <1>1, <1>2, <2>5 DEF DraftsStand, Guards
    <2> QED BY <1>3, <2>9, <2>10, <2>11 DEF CInv
  <1> QED BY <1>4, <1>5

LEMMA ServeSaveKeeps ==
    ASSUME CInv, ServeSave
    PROVE  CInv'
  <1>1. ReadsShaped /\ SavesShaped /\ ReadsAreAsked /\ ReadsAreNew /\ KeysAreKept /\ DraftsStand
    BY DEF CInv
  <1>2. /\ save.stage = "sent" /\ save \in Command
        /\ UNCHANGED <<open, sel, flights, shown, loading, form, plan, keys, acked, asking, hidden>>
    BY <1>1 DEF ServeSave, SavesShaped, NoSave
  <1>3. PICK next \in {"accepted", "refused"} :
          /\ save' = [save EXCEPT !.stage = next]
          /\ \/ record' = record /\ (next = "accepted" => save.key \in record.seen)
             \/ ~Repeats(save)
                /\ record' = [version |-> record.version + 1,
                              seen |-> record.seen \cup ({save.key} \ {0}),
                              unacked |-> record.unacked \cup {save.text},
                              twice |-> record.twice \/ save.text \in record.unacked]
    BY DEF ServeSave, Repeats
  <1>4. /\ save' \in Command /\ save'.stage = next /\ save'.key = save.key /\ save'.text = save.text
    BY <1>2, <1>3 DEF Command
  <1>5. ReadsShaped' /\ ReadsAreAsked'
    BY <1>1, <1>2 DEF ReadsShaped, ReadsAreAsked
  <1>6. CASE record' = record /\ (next = "accepted" => save.key \in record.seen)
    <2>1. SavesShaped' /\ ReadsAreNew'
      BY <1>1, <1>2, <1>4, <1>6 DEF SavesShaped, ReadsAreNew
    <2>2. KeysAreKept'
      BY <1>1, <1>2, <1>4, <1>6, CommandsDiffer DEF KeysAreKept
    <2>3. DraftsStand'
      BY <1>1, <1>2, <1>4, <1>6 DEF DraftsStand, Guards
    <2> QED BY <1>5, <2>1, <2>2, <2>3 DEF CInv
  <1>7. CASE record' # record \/ ~(next = "accepted" => save.key \in record.seen)
    <2>1. /\ ~Repeats(save)
          /\ record' = [version |-> record.version + 1,
                        seen |-> record.seen \cup ({save.key} \ {0}),
                        unacked |-> record.unacked \cup {save.text},
                        twice |-> record.twice \/ save.text \in record.unacked]
      BY <1>3, <1>7
    <2>2. /\ record.version \in Nat /\ record.seen \subseteq Nat /\ record.unacked \subseteq Texts
          /\ save.key \in Nat /\ save.text \in Texts
      BY <1>1, <1>2 DEF SavesShaped, RecordState, Command
    <2>3. PICK n, held, waiting, again :
            /\ n = record.version + 1 /\ held = record.seen \cup ({save.key} \ {0})
            /\ waiting = record.unacked \cup {save.text}
            /\ again = (record.twice \/ save.text \in record.unacked)
      OBVIOUS
    <2>4. /\ n \in Nat /\ n # 0 /\ held \subseteq Nat /\ waiting \subseteq Texts
      BY <2>2, <2>3
    <2>12. again \in BOOLEAN /\ (again <=> (record.twice \/ save.text \in record.unacked))
      BY <2>3, Zenon
    <2>13. record' = [version |-> n, seen |-> held, unacked |-> waiting, twice |-> again]
      BY <2>1, <2>3, Zenon
    <2>14. record'.version = n /\ record'.seen = held /\ record'.unacked = waiting /\ record'.twice = again
      BY <2>13
    <2>5. record' \in RecordState
      BY <2>4, <2>12, <2>13 DEF RecordState
    <2>6. IsFiniteSet(record'.seen)
      <3>1. IsFiniteSet({save.key} \ {0}) /\ IsFiniteSet(record.seen)
        <4>1. IsFiniteSet({save.key})
          BY FS_Singleton
        <4> QED BY <1>1, <4>1, FS_Difference DEF SavesShaped
      <3>2. IsFiniteSet(record.seen \cup ({save.key} \ {0}))
        BY <3>1, FS_Union
      <3> QED BY <2>3, <2>14, <3>2
    <2>7. SavesShaped'
      BY <1>1, <1>2, <1>4, <2>5, <2>6 DEF SavesShaped
    <2>8. ReadsAreNew'
      <3>1. acked \in Nat
        BY <1>1 DEF SavesShaped
      <3> QED BY <1>1, <1>2, <2>2, <2>3, <2>14, <3>1 DEF ReadsAreNew
    <2>9. KeysAreKept'
      <3> SUFFICES ASSUME open.writes.has, open.writes.once
                   PROVE  /\ ~record'.twice
                          /\ \A u \in record'.unacked : keys[u] # 0 /\ keys[u] \in record'.seen
                          /\ save'.key = keys[save'.text] /\ save'.key # 0
        BY <1>2 DEF KeysAreKept
      <3>1. /\ ~record.twice /\ save.key = keys[save.text] /\ save.key # 0
            /\ \A u \in record.unacked : keys[u] # 0 /\ keys[u] \in record.seen
        BY <1>1, <1>2, CommandsDiffer DEF KeysAreKept
      <3>2. save.key \notin record.seen
        BY <2>1, <3>1 DEF Repeats
      <3>3. save.text \notin record.unacked
        BY <3>1, <3>2
      <3>4. ~record'.twice
        BY <2>12, <2>14, <3>1, <3>3
      <3> QED BY <1>4, <2>3, <2>14, <3>1, <3>3, <3>4
    <2>10. DraftsStand'
      BY <1>1, <1>2, <1>4, <2>3, <2>4, <2>14 DEF DraftsStand, Guards
    <2> QED BY <1>5, <2>7, <2>8, <2>9, <2>10 DEF CInv
  <1> QED BY <1>6, <1>7

LEMMA SaveAcceptedKeeps ==
    ASSUME CInv, SaveAccepted
    PROVE  CInv'
  <1>1. ReadsShaped /\ SavesShaped /\ ReadsAreAsked /\ ReadsAreNew /\ KeysAreKept /\ DraftsStand
    BY DEF CInv
  <1>2. /\ save.stage = "accepted" /\ save' = NoSave /\ keys' = [keys EXCEPT ![save.text] = 0]
        /\ record' = [record EXCEPT !.unacked = @ \ {save.text}]
        /\ UNCHANGED <<open, asking, hidden>>
        /\ acked' = IF save.live THEN record.version ELSE acked
    BY DEF SaveAccepted, Accepted
  <1>3. save \in Command /\ save # NoSave /\ record.version # 0
    BY <1>1, <1>2 DEF SavesShaped, NoSave, DraftsStand
  <1>4. /\ record' \in RecordState /\ record'.version = record.version /\ record'.seen = record.seen
        /\ record'.unacked = record.unacked \ {save.text} /\ record'.twice = record.twice
        /\ record.version \in Nat
    BY <1>1, <1>2 DEF SavesShaped, RecordState
  <1>5. acked' \in Nat /\ (acked # 0 => acked' # 0) /\ (save.live => acked' # 0 /\ acked' = record.version)
    BY <1>1, <1>2, <1>3, <1>4 DEF SavesShaped
  <1>6. SavesShaped'
    BY <1>1, <1>2, <1>3, <1>4, <1>5 DEF SavesShaped
  <1>7. KeysAreKept'
    <2>1. \A u \in Texts : u # save.text => keys'[u] = keys[u]
      BY <1>1, <1>2 DEF SavesShaped
    <2>2. record.unacked \subseteq Texts
      BY <1>1 DEF SavesShaped, RecordState
    <2> QED BY <1>1, <1>2, <1>4, <2>1, <2>2 DEF KeysAreKept
  <1>8. open.writes.has /\ open.writes.then = "reload" => acked' <= record'.version
    BY <1>1, <1>2, <1>4, <1>5 DEF ReadsAreNew, SavesShaped
  <1>9. Closed \in FormState /\ (~Closed.mounted => Closed.text = Stored) /\ Closed.mounted = form.mounted
    BY <1>1 DEF ReadsShaped, Closed, FormState
  <1>10. \/ Reload(sel, Closed) /\ sel' = sel /\ save.live
         \/ \E s \in Questions : Mount(s)
         \/ /\ UNCHANGED <<sel, flights, shown, loading>> /\ form' \in {Closed, form}
            /\ ~(open.writes.then = "reload" /\ save.live)
    BY DEF SaveAccepted, Then
  <1>11. CASE Reload(sel, Closed) /\ sel' = sel /\ save.live
    <2>1. ReadsShaped' /\ ReadsAreAsked' /\ loading' /\ (acked' <= record'.version => ReadsAreNew')
      BY <1>1, <1>2, <1>9, <1>11, ReloadReads DEF ReadsShaped
    <2>2. ReadsAreNew'
      BY <1>2, <1>8, <2>1 DEF ReadsAreNew
    <2>3. DraftsStand'
      BY <1>1, <1>2, <1>3, <1>4, <1>5, <1>11, <2>1 DEF DraftsStand
    <2> QED BY <1>6, <1>7, <2>1, <2>2, <2>3 DEF CInv
  <1>12. CASE \E s \in Questions : Mount(s)
    <2>1. /\ ReadsShaped' /\ ReadsAreAsked' /\ (acked' <= record'.version => ReadsAreNew')
          /\ Guards' => ~form'.mounted
      BY <1>2, <1>12, MountReads
    <2>2. ReadsAreNew'
      BY <1>2, <1>8, <2>1 DEF ReadsAreNew
    <2>3. DraftsStand'
      BY <1>1, <1>2, <1>3, <1>4, <2>1 DEF DraftsStand
    <2> QED BY <1>6, <1>7, <2>1, <2>2, <2>3 DEF CInv
  <1>13. CASE /\ UNCHANGED <<sel, flights, shown, loading>> /\ form' \in {Closed, form}
              /\ ~(open.writes.then = "reload" /\ save.live)
    <2>1. ReadsShaped' /\ ReadsAreAsked'
      BY <1>1, <1>2, <1>9, <1>13 DEF ReadsShaped, ReadsAreAsked
    <2>2. ReadsAreNew'
      BY <1>1, <1>2, <1>4, <1>13 DEF ReadsAreNew
    <2>3. form'.mounted = form.mounted
      BY <1>9, <1>13
    <2>4. DraftsStand'
      BY <1>1, <1>2, <1>3, <1>4, <1>5, <1>13, <2>3 DEF DraftsStand, Guards
    <2> QED BY <1>6, <1>7, <2>1, <2>2, <2>4 DEF CInv
  <1> QED BY <1>10, <1>11, <1>12, <1>13

(* The invariant holds of every screen.                                    *)
THEOREM ScreenInvariant == ScreenSpec => []CInv
  <1>1. ASSUME CInv, [ScreenNext]_svars PROVE CInv'
    <2>1. CASE UNCHANGED svars
      BY <1>1, <2>1 DEF svars, CInv, ReadsShaped, SavesShaped, ReadsAreAsked, ReadsAreNew, KeysAreKept,
         DraftsStand, Guards
    <2>2. CASE ScreenNext
      BY <1>1, <2>2, ServeKeeps, OutcomeKeeps, PickReads, LeavingKeeps, TypingKeeps, SaveKeeps,
         ServeSaveKeeps, SaveAcceptedKeeps DEF ScreenNext
    <2> QED BY <1>1, <2>1, <2>2
  <1> QED BY <1>1, CInvInit, PTL DEF ScreenSpec

(* Of every screen of the portal, whatever is read, saved, lost or left in *)
(* whatever order: what is drawn answers what is asked (useAsync), is not  *)
(* older than the last acknowledged save, and a content sent again after   *)
(* its answer was lost is carried out once (command's pendingKeys).        *)
THEOREM Screen_Is_Current == ScreenSpec => []ScreenIsCurrent
  <1>1. ASSUME CInv PROVE ShownIsAsked
    BY <1>1 DEF CInv, ReadsAreAsked, ShownIsAsked, Drawn
  <1>2. ASSUME CInv PROVE SavedIsShown
    <2>1. shown.version \subseteq Nat /\ acked \in Nat
      BY <1>2 DEF CInv, ReadsShaped, SavesShaped, Flight
    <2> QED BY <1>2, <2>1 DEF CInv, ReadsAreNew, SavedIsShown
  <1>3. ASSUME CInv PROVE CommandOnce
    BY <1>3 DEF CInv, KeysAreKept, CommandOnce
  <1>4. CInv => ScreenIsCurrent
    BY <1>1, <1>2, <1>3 DEF ScreenIsCurrent
  <1> QED BY <1>4, ScreenInvariant, PTL

(* No step takes what somebody typed into a guarded form of a screen that  *)
(* does not poll, unless they were asked, it is being saved, or the        *)
(* session is gone (useLeaveGuard, whenLeaving).                           *)
THEOREM Drafts_Kept == ScreenSpec => DraftsKept
  <1> DEFINE Kept == (DraftGoes /\ open.reads.polls = "no") => DraftGoesKnowingly
  <1>1. ASSUME CInv, [ScreenNext]_svars PROVE Kept
    <2> SUFFICES ASSUME DraftGoes, open.reads.polls = "no" PROVE DraftGoesKnowingly
      OBVIOUS
    <2>1. /\ open.writes.has /\ open.writes.guarded /\ form.text # Stored /\ form'.text = Stored
          /\ form.mounted /\ form' # form
      BY <1>1 DEF DraftGoes, CInv, ReadsShaped
    <2>2. CASE \E f \in flights : Arrive(f) \/ Fail(f)
      <3>1. open.writes.inside
        BY <1>1, <2>1, <2>2, OutcomeKeeps
      <3>2. loading /\ acked # 0
        BY <1>1, <2>1, <2>2, <3>1 DEF CInv, DraftsStand, Guards
      <3> QED BY <3>2 DEF DraftGoesKnowingly, ReloadingAfterSave
    <2>3. CASE \/ \E s \in Questions : Pick(s)
               \/ TickScreen \/ ComeBack
      BY <1>1, <2>1, <2>3, PickReads
    <2>4. CASE \E t \in Texts : Edit(t)
      <3>1. PICK t \in Texts : form' = [form EXCEPT !.text = t]
        BY <2>4 DEF Edit
      <3>2. form'.text = t
        BY <1>1, <3>1 DEF CInv, ReadsShaped, FormState
      <3> QED BY <2>1, <3>2, ScreenBounds DEF ScreenBounds
    <2>5. CASE SaveAccepted
      BY <2>5 DEF SaveAccepted, Accepted, DraftGoesKnowingly
    <2>6. CASE Leave
      BY <2>1, <2>6 DEF Leave, Guarded
    <2>7. CASE Discard \/ SessionLost
      BY <2>7 DEF Discard, DraftGoesKnowingly
    <2> QED BY <1>1, <2>1, <2>2, <2>3, <2>4, <2>5, <2>6, <2>7
         DEF ScreenNext, svars, Serve, Hide, AskPreview, PreviewArrives, Save, ServeSave, SaveFails,
             OthersChange, Stay
  <1> QED BY <1>1, ScreenInvariant, PTL DEF ScreenSpec, DraftsKept
=============================================================================
