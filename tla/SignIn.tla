------------------------------- MODULE SignIn -------------------------------
(***************************************************************************)
(* Sign-in through the identity provider (control-plane/src/auth-oidc.ts,  *)
(* api/auth.ts, the application routes of api/users.ts): the flow and its  *)
(* callback, the refresh of a session's claims before a request is served  *)
(* (router.ts, dispatch), and the applications and memberships the claims  *)
(* become.  A wait for the provider is a step of its own.                  *)
(***************************************************************************)
EXTENDS Naturals, FiniteSets, Sequences

CONSTANTS
    Subjects,
    Flows,       \* values of `state`
    WebSessions,
    Tasks,       \* slots for callbacks and refreshes under way
    Groups, Leaf, IdOf, \* a group's last path segment, and the id it derives
    AppIds, NoId, NoGroup,
    Claims,      \* the group lists a token may carry
    MaxTurns     \* bound: changes at the provider, faults and new tokens

ASSUME SignInAssumption ==
    /\ Leaf \in [Groups -> Groups] /\ IdOf \in [Groups -> AppIds \cup {NoId}]
    /\ NoId \notin AppIds /\ NoGroup \notin Groups
    /\ Claims \subseteq Seq(Groups) /\ MaxTurns \in Nat

VARIABLES
    discovery,   \* discoveryCache and discoveryInFlight
    flows,       \* auth_flow rows
    task,        \* callbacks and refreshes
    web,         \* session rows
    apps,        \* application rows
    member,      \* membership rows
    idp,         \* the provider: claims, current token per session, ended
    turns,
    exchanges,   \* history: codes presented to the provider, per flow
    excused      \* history: sessions the provider ended, or lost an answer of

ovars == <<discovery, flows, task, web, apps, member, idp, turns, exchanges, excused>>

-----------------------------------------------------------------------------
IdleTask == [stage |-> "idle"]
NoClaims == <<NoGroup>>
SignInInit ==
    /\ discovery = "cold"
    /\ flows = {} /\ task = [t \in Tasks |-> IdleTask]
    /\ web = [g \in WebSessions |-> [state |-> "absent"]]
    /\ apps = [a \in AppIds |-> [known |-> FALSE, group |-> NoGroup]]
    /\ member = [s \in Subjects |-> [a \in AppIds |-> "none"]]
    /\ idp = [claims |-> [s \in Subjects |-> <<>>],
              token |-> [g \in WebSessions |-> 0], ended |-> {}]
    /\ turns = 0 /\ exchanges = [f \in Flows |-> 0] /\ excused = {}

Turn == turns < MaxTurns /\ turns' = turns + 1

(* discover: one fetch for everybody who asks while it runs. *)
Asking == IF discovery = "known" THEN "asking" ELSE "discovering"
Asked == discovery' = IF discovery = "cold" THEN "fetching" ELSE discovery

DiscoveryAnswers ==
    /\ discovery = "fetching"
    /\ discovery' = "known"
    /\ task' = [t \in Tasks |-> IF task[t].stage = "discovering"
                                THEN [task[t] EXCEPT !.stage = "asking"] ELSE task[t]]
    /\ UNCHANGED <<flows, web, apps, member, idp, turns, exchanges, excused>>

(* A failure is everybody's: the callback is refused and its flow is gone, *)
(* the refresh answers 503 and the session stays.                          *)
DiscoveryFails ==
    /\ discovery = "fetching" /\ Turn
    /\ discovery' = "cold"
    /\ task' = [t \in Tasks |-> IF task[t].stage = "discovering" THEN IdleTask ELSE task[t]]
    /\ UNCHANGED <<flows, web, apps, member, idp, exchanges, excused>>

DiscoveryLapses ==
    /\ discovery = "known" /\ Turn
    /\ discovery' = "cold"
    /\ UNCHANGED <<flows, task, web, apps, member, idp, exchanges, excused>>

-----------------------------------------------------------------------------
(* Claims to applications.  mapGroupsToApplications, one group after the   *)
(* other: found by its own name or its last segment, else adopted by or    *)
(* created under the id it derives, unless that id is another group's.     *)
BoundTo(a, g) == {x \in DOMAIN a : a[x].known /\ a[x].group = g}
Hit(a, g) == IF BoundTo(a, g) # {} THEN BoundTo(a, g) ELSE BoundTo(a, Leaf[g])
MapTaking(acc, g) == \* mutant: the derived id is taken over
    LET a == acc.apps
        id == IdOf[g]
    IN  IF Hit(a, g) # {} THEN [acc EXCEPT !.ids = @ \cup {CHOOSE x \in Hit(a, g) : TRUE}]
        ELSE IF id = NoId THEN acc
        ELSE [apps |-> [a EXCEPT ![id] = [known |-> TRUE, group |-> g]],
              ids |-> acc.ids \cup {id}]
MapGroup(acc, g) ==
    LET a == acc.apps
        id == IdOf[g]
    IN  IF Hit(a, g) # {} THEN [acc EXCEPT !.ids = @ \cup {CHOOSE x \in Hit(a, g) : TRUE}]
        ELSE IF id = NoId \/ (a[id].known /\ a[id].group # NoGroup) THEN acc
        ELSE [apps |-> [a EXCEPT ![id] = [known |-> TRUE, group |-> g]],
              ids |-> acc.ids \cup {id}]
MapGroups(groups) ==
    LET after[n \in 0..Len(groups)] ==
          IF n = 0 THEN [apps |-> apps, ids |-> {}]
          ELSE MapGroup(after[n - 1], groups[n])
    IN  after[Len(groups)]

(* syncIdpMemberships, over grantMembership's local-outranks-idp. *)
SyncAll(m, ids) == \* mutant: every membership the claims lack goes
    [a \in AppIds |-> IF a \in ids THEN IF m[a] = "local" THEN "local" ELSE "idp"
                      ELSE "none"]
SyncIdpMemberships(m, ids) ==
    [a \in AppIds |-> IF a \in ids THEN IF m[a] = "local" THEN "local" ELSE "idp"
                      ELSE IF m[a] = "idp" THEN "none" ELSE m[a]]

ApplyClaims(s, groups) ==
    LET mapped == MapGroups(groups)
    IN  /\ apps' = mapped.apps
        /\ member' = [member EXCEPT ![s] = SyncIdpMemberships(@, mapped.ids)]

-----------------------------------------------------------------------------
(* GET /auth/login and GET /auth/callback.  The row goes before the first  *)
(* wait.                                                                   *)
StartFlow(f) ==
    /\ discovery = "known" /\ f \notin flows /\ exchanges[f] = 0 \* a new random value
    /\ \A t \in Tasks : task[t] # IdleTask /\ task[t].kind = "callback" => task[t].flow # f
    /\ flows' = flows \cup {f}
    /\ UNCHANGED <<discovery, task, web, apps, member, idp, turns, exchanges, excused>>

(* The discovery that /auth/login waits for, asked by nobody else. *)
LoginAsks ==
    /\ discovery = "cold"
    /\ discovery' = "fetching"
    /\ UNCHANGED <<flows, task, web, apps, member, idp, turns, exchanges, excused>>

FlowLapses(f) ==
    /\ f \in flows /\ Turn
    /\ flows' = flows \ {f}
    /\ UNCHANGED <<discovery, task, web, apps, member, idp, exchanges, excused>>

FlowKept(f) == flows \* mutant: deleted once the exchange has succeeded
FlowTaken(f) == flows \ {f}

CallbackBegins(t, f, s) ==
    /\ task[t] = IdleTask /\ f \in flows
    /\ flows' = FlowTaken(f)
    /\ task' = [task EXCEPT ![t] = [stage |-> Asking, kind |-> "callback", flow |-> f,
                                    subject |-> s, groups |-> NoClaims]]
    /\ Asked
    /\ UNCHANGED <<web, apps, member, idp, turns, exchanges, excused>>

(* The provider redeems a code; a refusal or a fault ends the callback.    *)
CallbackExchanges(t) ==
    /\ task[t].stage = "asking" /\ task[t].kind = "callback"
    /\ exchanges' = [exchanges EXCEPT ![task[t].flow] = @ + 1]
    /\ \/ /\ task' = [task EXCEPT ![t].stage = "answered",
                                  ![t].groups = idp.claims[task[t].subject]]
          /\ UNCHANGED turns
       \/ Turn /\ task' = [task EXCEPT ![t] = IdleTask]
    /\ UNCHANGED <<discovery, flows, web, apps, member, idp, excused>>

CallbackEnds(t) ==
    /\ task[t].stage = "answered" /\ task[t].kind = "callback"
    /\ ApplyClaims(task[t].subject, task[t].groups)
    /\ \E g \in WebSessions :
          /\ web[g].state = "absent"
          /\ web' = [web EXCEPT ![g] = [state |-> "live", subject |-> task[t].subject,
                                        token |-> 0, due |-> FALSE]]
    /\ task' = [task EXCEPT ![t] = IdleTask]
    /\ UNCHANGED <<discovery, flows, idp, turns, exchanges, excused>>

-----------------------------------------------------------------------------
(* refreshClaimsIfDue: before a request on a session whose claims are old. *)
(* Requests that find a refresh under way wait for that one.               *)
EachOnItsOwn(g) == TRUE \* mutant: no refreshInFlight
NotInFlight(g) ==
    \A t \in Tasks : task[t] # IdleTask /\ task[t].kind = "refresh" => task[t].session # g

ClaimsAge(g) ==
    /\ web[g].state = "live" /\ ~web[g].due /\ Turn
    /\ web' = [web EXCEPT ![g].due = TRUE]
    /\ UNCHANGED <<discovery, flows, task, apps, member, idp, exchanges, excused>>

RefreshBegins(t, g) ==
    /\ task[t] = IdleTask
    /\ web[g].state = "live" /\ web[g].due /\ NotInFlight(g)
    /\ task' = [task EXCEPT ![t] = [stage |-> Asking, kind |-> "refresh", session |-> g,
                                    token |-> web[g].token, outcome |-> "none",
                                    groups |-> NoClaims]]
    /\ Asked
    /\ UNCHANGED <<flows, web, apps, member, idp, turns, exchanges, excused>>

(* The provider's side: a token works once and is answered with the next,  *)
(* with or without an id_token; anything but the current one is a 4xx.  A  *)
(* 5xx changes nothing, and a lost answer has rotated the token.           *)
RefreshAsks(t) ==
    /\ task[t].stage = "asking" /\ task[t].kind = "refresh"
    /\ LET g == task[t].session
           good == g \notin idp.ended /\ task[t].token = idp.token[g]
           answer(o, c) == task' = [task EXCEPT ![t].stage = "answered", ![t].outcome = o,
                                                ![t].groups = c]
           rotated == [idp EXCEPT !.token[g] = @ + 1]
       IN  \/ ~good /\ answer("refused", NoClaims) /\ UNCHANGED <<idp, turns, excused>>
           \/ /\ good /\ idp' = rotated /\ UNCHANGED <<turns, excused>>
              /\ \E c \in {NoClaims, idp.claims[web[g].subject]} : answer("ok", c)
           \/ Turn /\ answer("unavailable", NoClaims) /\ UNCHANGED <<idp, excused>>
           \/ /\ good /\ Turn /\ answer("unavailable", NoClaims)
              /\ idp' = rotated /\ excused' = excused \cup {g}
           \/ /\ good /\ Turn /\ answer("another subject", NoClaims)
              /\ idp' = rotated /\ excused' = excused \cup {g}
    /\ UNCHANGED <<discovery, flows, web, apps, member, exchanges>>

(* doRefresh after its waits: refused or somebody else's, the session is   *)
(* revoked; unavailable, it is left; else the claims and the new token are *)
(* written, to a session that may have been revoked meanwhile.             *)
RefreshEnds(t) ==
    /\ task[t].stage = "answered" /\ task[t].kind = "refresh"
    /\ LET g == task[t].session
           o == task[t].outcome
       IN  /\ web' = CASE o \in {"refused", "another subject"} ->
                            [web EXCEPT ![g].state = "ended"]
                       [] o = "ok" -> [web EXCEPT ![g].token = task[t].token + 1,
                                                  ![g].due = FALSE]
                       [] OTHER -> web
           /\ IF task[t].groups # NoClaims THEN ApplyClaims(web[g].subject, task[t].groups)
              ELSE UNCHANGED <<apps, member>>
    /\ task' = [task EXCEPT ![t] = IdleTask]
    /\ UNCHANGED <<discovery, flows, idp, turns, exchanges, excused>>

(* Logout revokes here first; telling the provider is best effort. *)
WebLogout(g) ==
    /\ web[g].state = "live"
    /\ web' = [web EXCEPT ![g].state = "ended"]
    /\ idp' \in {idp, [idp EXCEPT !.ended = @ \cup {g}]}
    /\ excused' = excused \cup {g}
    /\ UNCHANGED <<discovery, flows, task, apps, member, turns, exchanges>>

IdpEnds(g) ==
    /\ web[g].state = "live" /\ Turn
    /\ idp' = [idp EXCEPT !.ended = @ \cup {g}]
    /\ excused' = excused \cup {g}
    /\ UNCHANGED <<discovery, flows, task, web, apps, member, exchanges>>

IdpRegroups(s, groups) ==
    /\ Turn /\ idp.claims[s] # groups
    /\ idp' = [idp EXCEPT !.claims[s] = groups]
    /\ UNCHANGED <<discovery, flows, task, web, apps, member, exchanges, excused>>

-----------------------------------------------------------------------------
(* An administrator's edits of applications and members; the checks follow *)
(* the wait for the body, so each is one step.                             *)
GroupFree(g, a) == g = NoGroup \/ BoundTo(apps, g) \subseteq {a}

CreateApplication(a, g) ==
    /\ ~apps[a].known /\ GroupFree(g, a) /\ Turn
    /\ apps' = [apps EXCEPT ![a] = [known |-> TRUE, group |-> g]]
    /\ UNCHANGED <<discovery, flows, task, web, member, idp, exchanges, excused>>

BindApplication(a, g) ==
    /\ apps[a].known /\ GroupFree(g, a) /\ Turn
    /\ apps' = [apps EXCEPT ![a].group = g]
    /\ UNCHANGED <<discovery, flows, task, web, member, idp, exchanges, excused>>

(* Refused while it owns anything (ownedBy). *)
DeleteApplication(a) ==
    /\ apps[a].known /\ Turn
    /\ apps' = [apps EXCEPT ![a] = [known |-> FALSE, group |-> NoGroup]]
    /\ member' = [s \in Subjects |-> [member[s] EXCEPT ![a] = "none"]]
    /\ UNCHANGED <<discovery, flows, task, web, idp, exchanges, excused>>

GrantMembership(s, a) ==
    /\ apps[a].known /\ Turn
    /\ member' = [member EXCEPT ![s][a] = "local"]
    /\ UNCHANGED <<discovery, flows, task, web, apps, idp, exchanges, excused>>

RevokeMembership(s, a) ==
    /\ member[s][a] # "none" /\ Turn
    /\ member' = [member EXCEPT ![s][a] = "none"]
    /\ UNCHANGED <<discovery, flows, task, web, apps, idp, exchanges, excused>>

SignInNext ==
    \/ DiscoveryAnswers \/ DiscoveryFails \/ DiscoveryLapses \/ LoginAsks
    \/ \E f \in Flows : StartFlow(f) \/ FlowLapses(f)
    \/ \E t \in Tasks, f \in Flows, s \in Subjects : CallbackBegins(t, f, s)
    \/ \E t \in Tasks : CallbackExchanges(t) \/ CallbackEnds(t)
                        \/ RefreshAsks(t) \/ RefreshEnds(t)
    \/ \E g \in WebSessions : ClaimsAge(g) \/ WebLogout(g) \/ IdpEnds(g)
                              \/ \E t \in Tasks : RefreshBegins(t, g)
    \/ \E s \in Subjects, c \in Claims : IdpRegroups(s, c)
    \/ \E a \in AppIds, g \in Groups \cup {NoGroup} :
          CreateApplication(a, g) \/ BindApplication(a, g)
    \/ \E a \in AppIds : DeleteApplication(a)
                         \/ \E s \in Subjects : GrantMembership(s, a) \/ RevokeMembership(s, a)

SignInSpec == SignInInit /\ [][SignInNext]_ovars

-----------------------------------------------------------------------------
SignInTypeOK ==
    /\ discovery \in {"cold", "fetching", "known"} /\ flows \subseteq Flows
    /\ apps \in [AppIds -> [known : BOOLEAN, group : Groups \cup {NoGroup}]]
    /\ member \in [Subjects -> [AppIds -> {"none", "idp", "local"}]]
    /\ turns \in 0..MaxTurns

(* A session ends by a refresh only when the provider ended it or an       *)
(* answer was lost: however many requests arrive while its claims are due, *)
(* none presents a refresh token another one has already used              *)
(* (refreshInFlight, auth-oidc.ts:639).                                    *)
RotationKeepsSession ==
    \A g \in WebSessions : web[g].state = "ended" => g \in excused

(* A callback that is replayed, or answered twice, presents its code once  *)
(* ("Deleted before the exchange", api/auth.ts:311).                       *)
FlowUsedOnce == \A f \in Flows : exchanges[f] <= 1

(* A session begins once from one sign-in and ends only when somebody or   *)
(* something ended it.                                                     *)
SessionsHold == SignInTypeOK /\ RotationKeepsSession /\ FlowUsedOnce

(* A membership somebody granted here goes only when somebody takes it     *)
(* away or the application goes, never because a token, old or new, lacks  *)
(* the group (D33, principals.ts:302).                                     *)
LocalGrantsKept ==
    [][\A s \in Subjects, a \in AppIds :
          member[s][a] = "local" /\ member'[s][a] # "local"
              => RevokeMembership(s, a) \/ DeleteApplication(a)]_ovars

(* An application bound to a group is never handed to another by a token:  *)
(* "handing it over would give one group's holders another group's APIs"   *)
(* (openspec, auth-and-access).                                            *)
NoHandOver ==
    [][\A a \in AppIds : apps[a].group # NoGroup /\ apps'[a].group # apps[a].group
          => DeleteApplication(a) \/ \E g \in Groups \cup {NoGroup} : BindApplication(a, g)]_ovars

(* So what somebody may do changes only by a decision of this portal's     *)
(* people, in whatever order claims arrive.                                *)
GrantsStand == LocalGrantsKept /\ NoHandOver
=============================================================================
