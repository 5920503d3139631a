---------------------------- MODULE Subscription ----------------------------
(***************************************************************************)
(* Subscriptions of one environment and the keys its gateways honour:      *)
(* request, approval, activation, rotation, expiry and revocation          *)
(* (control-plane/src/api/catalog.ts, integrations.ts, key-expiry.ts,      *)
(* kafka-proxy.ts), the configuration document they end up in              *)
(* (config-build.ts, settings.ts), the polls that carry it to the fleet    *)
(* (api/gateway.ts) and the settling that waits for the fleet              *)
(* (fleetApplied and the end of runOperations in operations.ts).           *)
(*                                                                         *)
(* The control plane is one process.  A handler that awaits its body after *)
(* it has read the database is two actions, counted in request between     *)
(* them; a pass of runDueJobs is synchronous but commits several times, so *)
(* it is one step that may end, with the process, after any of its stages. *)
(*                                                                         *)
(* A key is its row, its slot and its generation.  A document is what      *)
(* fleetApplied compares by digest: the subscriptions, their keys, the     *)
(* settings resolved for the gateway and whether the build reported        *)
(* errors; routes and the rest change it as an error or a setting does.    *)
(* What an instance does with an answer is ConfigClient's subject: here a  *)
(* poll is sent, read and answered in one step and its answer adopted or   *)
(* lost.                                                                   *)
(*                                                                         *)
(* Left out: permissions, purposes, product lifecycle (a request that is   *)
(* refused changes nothing), mails and other integrations, audit rows, a   *)
(* token the seed script mints anew, and gateways that come and go.        *)
(***************************************************************************)
EXTENDS Naturals, FiniteSets, FiniteSetsExt

CONSTANTS
    Apps,         \* applications that own products and subscribe
    Platform,     \* PLATFORM_APPLICATION_ID
    Products,     \* products ordinary applications subscribe to
    Proxy,        \* the product of the shared Kafka proxy
    NoApp,
    Gateways,     \* the environment's targets
    Instances,    \* gateway_instance rows
    GatewayOf,    \* gateway_instance.target_id
    Default,      \* a setting's default in this build
    Values,       \* other values of it
    NoValue,
    Overridable,  \* scopes an administrator writes to (bound)
    NoDoc,        \* no document
    NoAnswer,     \* no poll answer
    MaxSubs,      \* subscription rows ever inserted (bound)
    MaxGen,       \* generations of each key slot (bound)
    Aging,        \* slots whose keys reach the age (bound)
    Changes,      \* what else changes: "setting", "errors", "owner", "product" (bound)
    MaxChanges,   \* how often (bound)
    MaxRequests   \* handlers between their halves (bound)

Slots == {"primary", "secondary"}
Layers == {"fleet", "environment"}
Scopes == Layers \cup Gateways

ASSUME SubscriptionAssumption ==
    /\ Platform \notin Apps /\ NoApp \notin Apps \cup {Platform}
    /\ Proxy \notin Products
    /\ Gateways \cap Layers = {}
    /\ GatewayOf \in [Instances -> Gateways]
    /\ Default \notin Values /\ NoValue \notin Values
    /\ Overridable \subseteq Scopes
    /\ MaxSubs \in Nat /\ MaxGen \in [Slots -> Nat \ {0}]
    /\ Aging \subseteq Slots
    /\ MaxChanges \in Nat /\ MaxRequests \in Nat

VARIABLES
    sub,        \* the subscription table, with each row's SkoNET event
    nsub,       \* rows inserted so far
    owner,      \* product.application_id; NoApp once the product is deleted
    override,   \* gateway_setting, one setting
    broken,     \* buildConfig reports errors
    changes,    \* changes of these three so far
    instance,   \* gateway_instance: row, last_seen_at, config_digest
    held,       \* the document each instance serves
    answer,     \* the poll answer on its way to each instance
    request,    \* decisions and rotations that await their body
    dead        \* history: keys rotated away or expired

estate == <<owner, override, broken, changes>>
fleet == <<instance, held, answer>>
vars == <<sub, nsub, estate, fleet, request, dead>>

-----------------------------------------------------------------------------
SubIds == 1..MaxSubs
Current == {"pending", "activating", "active", "revoking"}
Terminal == {"cancelled", "rejected", "revoked"}
Absent == {"none", "deleted"}
Served == {"activating", "active"}
AllApps == Apps \cup {Platform}

Slot == [gen : Nat, expired : BOOLEAN]
Empty == [gen |-> 0, expired |-> FALSE]
Minted(gen) == [gen |-> gen, expired |-> FALSE]
Key == [sub : SubIds, slot : Slots, gen : Nat \ {0}]

Events == {"none", "queued", "awaiting-decision", "approved", "rejected"}

(* event and publisher: the SkoNET event's state and application_id.       *)
Row == [product : Products \cup {Proxy}, app : AllApps \cup {NoApp},
        state : Current \cup Terminal \cup Absent, slot : [Slots -> Slot],
        event : Events, publisher : AllApps \cup {NoApp}]
NoRow == [product |-> Proxy, app |-> NoApp, state |-> "none",
          slot |-> [k \in Slots |-> Empty], event |-> "none", publisher |-> NoApp]

Doc == [subs : SUBSET SubIds, keys : SUBSET Key, setting : Values \cup {Default},
        errors : BOOLEAN]
ASSUME DocAssumption == NoDoc \notin Doc

Instance == [row : {"absent", "live", "revoked"}, seen : {"never", "recent", "silent"},
             reported : Doc \cup {NoDoc}]

(* Handlers between their halves, by what they are about.                  *)
Requests == {"decide", "rotate"} \X SubIds

TypeOK ==
    /\ sub \in [SubIds -> Row]
    /\ nsub \in 0..MaxSubs
    /\ owner \in [Products \cup {Proxy} -> AllApps \cup {NoApp}]
    /\ override \in [Scopes -> Values \cup {NoValue}]
    /\ broken \in BOOLEAN
    /\ changes \in 0..MaxChanges
    /\ instance \in [Instances -> Instance]
    /\ held \in [Instances -> Doc \cup {NoDoc}]
    /\ answer \in [Instances -> Doc \cup {NoDoc, NoAnswer}]
    /\ request \in [Requests -> Nat]
    /\ dead \subseteq Key

-----------------------------------------------------------------------------
(* The configuration document *)

(* resolveGatewaySettings: the most specific layer that says anything, from *)
(* a gateway or from the environment on.                                    *)
SettingAt(scope) ==
    IF override[scope] # NoValue THEN override[scope]
    ELSE IF override["environment"] # NoValue THEN override["environment"]
    ELSE IF override["fleet"] # NoValue THEN override["fleet"] ELSE Default

(* buildSubscriptions over a table t: an expired slot is left out, its row  *)
(* is not.                                                                  *)
ServedRows(t) == {s \in SubIds : t[s].state \in Served}
Present(t, s, k) == t[s].slot[k].gen > 0
KeyOf(t, s, k) == [sub |-> s, slot |-> k, gen |-> t[s].slot[k].gen]
LiveKeys(t) ==
    UNION {{KeyOf(t, s, k) : k \in {j \in Slots : Present(t, s, j) /\ ~t[s].slot[j].expired}}
              : s \in ServedRows(t)}

(* buildConfig for one gateway, or for the environment.                    *)
BuildConfig(t, scope) ==
    [subs |-> ServedRows(t), keys |-> LiveKeys(t), setting |-> SettingAt(scope),
     errors |-> broken]

-----------------------------------------------------------------------------
Init ==
    /\ sub = [s \in SubIds |-> NoRow]
    /\ nsub = 0
    /\ owner \in {f \in [Products \cup {Proxy} -> AllApps] :
                     /\ f[Proxy] = Platform
                     /\ \A p \in Products : f[p] \in Apps}
    /\ override = [c \in Scopes |-> NoValue]
    /\ broken = FALSE
    /\ changes = 0
    /\ instance = [i \in Instances |->
                      [row |-> "absent", seen |-> "never", reported |-> NoDoc]]
    /\ held = [i \in Instances |-> NoDoc]
    /\ answer = [i \in Instances |-> NoAnswer]
    /\ request = [q \in Requests |-> 0]
    /\ dead = {}

-----------------------------------------------------------------------------
(* Subscriptions *)

(* The unique index subscription_current.                                  *)
Taken(p, a) == \E s \in SubIds : /\ sub[s].product = p /\ sub[s].app = a
                                 /\ sub[s].state \in Current

Insert(p, a, state, event, publisher) ==
    /\ nsub < MaxSubs
    /\ ~Taken(p, a)
    /\ nsub' = nsub + 1
    /\ sub' = [sub EXCEPT ![nsub + 1] =
                  [product |-> p, app |-> a, state |-> state,
                   slot |-> [k \in Slots |-> IF k = "primary" THEN Minted(1) ELSE Empty],
                   event |-> event, publisher |-> publisher]]
    /\ UNCHANGED <<estate, fleet, request, dead>>

(* createSubscription: access to one's own product needs no approval.      *)
CreateSubscription(p, a) ==
    /\ owner[p] # NoApp
    /\ IF owner[p] = a THEN Insert(p, a, "activating", "none", NoApp)
                       ELSE Insert(p, a, "pending", "queued", owner[p])

(* ensurePlatformSubscription, with the operation that publishes the proxy.*)
EnsurePlatformSubscription ==
    owner[Proxy] # NoApp /\ Insert(Proxy, Platform, "activating", "none", NoApp)

(* A handler with a body to await begins, and ends.                        *)
InFlight == MapThenSumSet(LAMBDA r : request[r], Requests)
Begin(q) ==
    /\ InFlight < MaxRequests
    /\ request' = [request EXCEPT ![q] = @ + 1]
    /\ UNCHANGED <<sub, nsub, estate, fleet, dead>>
End(q) ==
    /\ request[q] > 0
    /\ request' = [request EXCEPT ![q] = @ - 1]

(* A body that is no decision and names no slot is refused.                *)
Refuse(q) == End(q) /\ UNCHANGED <<sub, nsub, estate, fleet, dead>>

(* POST .../decision reads the event, then awaits the body: an event that  *)
(* is not awaiting a decision ends it there.                               *)
BeginDecide(s) == sub[s].event = "awaiting-decision" /\ Begin(<<"decide", s>>)

DecidableTwice(s) == TRUE \* mutant

(* What the transaction asks of the row, whatever the event said before.   *)
Decidable(s) == sub[s].state = "pending" /\ owner[sub[s].product] = sub[s].publisher

DecidedStateRaw(verdict) == verdict \* mutant
DecidedState(verdict) == IF verdict = "approved" THEN "activating" ELSE "rejected"

FinishDecide(s, verdict) ==
    /\ End(<<"decide", s>>)
    /\ sub' = IF Decidable(s)
              THEN [sub EXCEPT ![s].event = verdict, ![s].state = DecidedState(verdict)]
              ELSE sub
    /\ UNCHANGED <<nsub, estate, fleet, dead>>

(* POST .../rotate: only the read, before the body, looks at the state.    *)
BeginRotate(s) == sub[s].state = "active" /\ Begin(<<"rotate", s>>)

RotatedClearing(s, k) == \* mutant
    [j \in Slots |-> IF j = k THEN Minted(sub[s].slot[k].gen + 1)
                              ELSE [sub[s].slot[j] EXCEPT !.expired = FALSE]]

(* The new key replaces the old one in its slot, and its expiry mark goes. *)
(* A row deleted meanwhile is not there to update.                         *)
Rotated(s, k) == [sub[s].slot EXCEPT ![k] = Minted(@.gen + 1)]

FinishRotate(s, k) ==
    /\ End(<<"rotate", s>>)
    /\ sub[s].state \notin Absent
    /\ sub[s].slot[k].gen < MaxGen[k]
    /\ sub' = [sub EXCEPT ![s].slot = Rotated(s, k)]
    /\ dead' = dead \cup IF Present(sub, s, k) THEN {KeyOf(sub, s, k)} ELSE {}
    /\ UNCHANGED <<nsub, estate, fleet>>

RevokedStateCancels(state) == \* mutant
    IF state \in {"pending", "activating"} THEN "cancelled"
    ELSE IF state \in Terminal THEN state ELSE "revoking"

(* DELETE /api/subscriptions/:id.                                          *)
RevokedState(state) ==
    IF state = "pending" THEN "cancelled"
    ELSE IF state \in Terminal THEN state ELSE "revoking"

Revoke(s) ==
    /\ sub[s].state \notin Absent
    /\ sub' = [sub EXCEPT ![s].state = RevokedState(@)]
    /\ UNCHANGED <<nsub, estate, fleet, request, dead>>

-----------------------------------------------------------------------------
(* What else changes the document or who may decide *)

Change(what) ==
    /\ what \in Changes
    /\ changes < MaxChanges
    /\ changes' = changes + 1
    /\ UNCHANGED <<nsub, fleet, request, dead>>

(* PATCH /api/gateway-settings: a value, or null to inherit again.         *)
WriteSettingOverride(scope, v) ==
    /\ Change("setting")
    /\ scope \in Overridable
    /\ override' = [override EXCEPT ![scope] = v]
    /\ UNCHANGED <<sub, owner, broken>>

(* A reference that resolves to nothing, an invalid policy; or its repair. *)
Obstruct ==
    /\ Change("errors")
    /\ broken' = ~broken
    /\ UNCHANGED <<sub, owner, override>>

(* POST /api/resources/:id/owner takes the API's product along.            *)
Transfer(p, a) ==
    /\ Change("owner")
    /\ owner[p] \notin {a, NoApp}
    /\ owner' = [owner EXCEPT ![p] = a]
    /\ UNCHANGED <<sub, override, broken>>

(* DELETE /api/products/:id, and by cascade the subscriptions; what was     *)
(* sent to SkoNET stays.  Only active subscriptions stand in its way.       *)
DeleteProduct(p) ==
    LET ofProduct == {s \in SubIds : sub[s].product = p /\ sub[s].state # "none"} IN
    /\ Change("product")
    /\ owner[p] # NoApp
    /\ \A s \in ofProduct : sub[s].state # "active"
    /\ owner' = [owner EXCEPT ![p] = NoApp]
    /\ sub' = [s \in SubIds |-> IF s \in ofProduct THEN [sub[s] EXCEPT !.state = "deleted"]
                                                   ELSE sub[s]]
    /\ UNCHANGED <<override, broken>>

-----------------------------------------------------------------------------
(* The fleet *)

MintInstance(i) ==
    /\ instance[i].row = "absent"
    /\ instance' = [instance EXCEPT ![i].row = "live"]
    /\ UNCHANGED <<sub, nsub, estate, held, answer, request, dead>>

RevokeInstance(i) ==
    /\ instance[i].row = "live"
    /\ instance' = [instance EXCEPT ![i].row = "revoked"]
    /\ UNCHANGED <<sub, nsub, estate, held, answer, request, dead>>

(* INSTANCE_ABANDONED_AFTER_SEC pass without a poll being handled.         *)
GoSilent(i) ==
    /\ instance[i].row = "live" /\ instance[i].seen = "recent"
    /\ instance' = [instance EXCEPT ![i].seen = "silent"]
    /\ UNCHANGED <<sub, nsub, estate, held, answer, request, dead>>

(* The gateway process restarts: it serves what it served last, from its   *)
(* cache, or nothing.                                                      *)
Restart(i) ==
    /\ held' \in {held, [held EXCEPT ![i] = NoDoc]}
    /\ answer' = [answer EXCEPT ![i] = NoAnswer]
    /\ UNCHANGED <<sub, nsub, estate, instance, request, dead>>

(* POST /api/gateway/poll: what the instance runs is recorded, and this    *)
(* gateway's document is the answer; a revoked instance is refused.        *)
HandlePoll(i) ==
    /\ answer[i] = NoAnswer
    /\ \/ /\ instance[i].row = "live"
          /\ instance' = [instance EXCEPT ![i].seen = "recent",
                                          ![i].reported = held[i]]
          /\ answer' = [answer EXCEPT ![i] = BuildConfig(sub, GatewayOf[i])]
       \/ /\ instance[i].row = "revoked"
          /\ answer' = [answer EXCEPT ![i] = NoDoc]
          /\ UNCHANGED instance
    /\ UNCHANGED <<sub, nsub, estate, held, request, dead>>

Adopt(i) ==
    /\ answer[i] # NoAnswer
    /\ held' = [held EXCEPT ![i] = answer[i]]
    /\ answer' = [answer EXCEPT ![i] = NoAnswer]
    /\ UNCHANGED <<sub, nsub, estate, instance, request, dead>>

(* Lost on the way, or its document was not activated.                     *)
LoseAnswer(i) ==
    /\ answer[i] # NoAnswer
    /\ answer' = [answer EXCEPT ![i] = NoAnswer]
    /\ UNCHANGED <<sub, nsub, estate, instance, held, request, dead>>

-----------------------------------------------------------------------------
(* A pass of runDueJobs, each stage a function of the table before it *)

(* runIntegrationEvents: SkoNET has the request and waits for a decision.  *)
(* due: the events whose retry is due, at most a batch of them.             *)
Queued == {s \in SubIds : sub[s].event = "queued"}
DeliverEvents(t, due) ==
    [s \in SubIds |-> IF s \in due THEN [t[s] EXCEPT !.event = "awaiting-decision"] ELSE t[s]]

(* runKeyExpiry marks the keys of active subscriptions that have reached   *)
(* the age, and rotatePlatformKeys replaces the platform's.                *)
Expirable(t) == {sk \in SubIds \X Aging :
                    /\ t[sk[1]].state = "active" /\ t[sk[1]].app # Platform
                    /\ Present(t, sk[1], sk[2]) /\ ~t[sk[1]].slot[sk[2]].expired}
Replaceable(t) == {<<s, "primary">> : s \in {r \in ServedRows(t) :
                    "primary" \in Aging /\ t[r].app = Platform /\ t[r].slot["primary"].gen < MaxGen["primary"]}}
AgedSlot(t, aged, s, k) ==
    IF <<s, k>> \notin aged THEN t[s].slot[k]
    ELSE IF t[s].app = Platform THEN Minted(t[s].slot[k].gen + 1)
                                ELSE [t[s].slot[k] EXCEPT !.expired = TRUE]
RunKeyExpiry(t, aged) ==
    [s \in SubIds |-> [t[s] EXCEPT !.slot = [k \in Slots |-> AgedSlot(t, aged, s, k)]]]

(* fleetApplied: every instance that could be serving runs the document of *)
(* its gateway.                                                            *)
Expected(t, g) ==
    BuildConfig(t, IF Cardinality(Gateways) = 1 THEN "environment" ELSE g)
CountedSilent == {i \in Instances : instance[i].row = "live"} \* mutant
Counted == {i \in Instances : instance[i].row = "live" /\ instance[i].seen # "silent"}

FleetAppliedSomewhere(t) == \* mutant
    ~broken /\ \E i \in Counted : instance[i].reported = Expected(t, GatewayOf[i])
FleetApplied(t) ==
    /\ ~broken
    /\ Counted # {}
    /\ \A i \in Counted : /\ instance[i].reported = Expected(t, GatewayOf[i])
                          /\ instance[i].seen # "never"

SettledState(state) ==
    IF state = "activating" THEN "active"
    ELSE IF state = "revoking" THEN "revoked" ELSE state
Settle(t) ==
    IF FleetApplied(t)
    THEN [s \in SubIds |-> [t[s] EXCEPT !.state = SettledState(@)]] ELSE t

(* aged: the slots that have reached the age.                              *)
RunDueJobs(due, aged) ==
    LET t == RunKeyExpiry(DeliverEvents(sub, due), aged) IN
    /\ sub' = Settle(t)
    /\ dead' = dead \cup {KeyOf(sub, sk[1], sk[2]) : sk \in aged}
    /\ UNCHANGED <<nsub, estate, fleet, request>>

(* The process dies, with the handlers in flight, outside a pass or before *)
(* it settles, some events delivered and some keys expired.                *)
Die(due, aged) ==
    /\ request' = [q \in Requests |-> 0]
    /\ sub' = RunKeyExpiry(DeliverEvents(sub, due), aged)
    /\ dead' = dead \cup {KeyOf(sub, sk[1], sk[2]) : sk \in aged}
    /\ UNCHANGED <<nsub, estate, fleet>>

-----------------------------------------------------------------------------
Handlers ==
    \/ \E p \in Products, a \in Apps : CreateSubscription(p, a) \/ Transfer(p, a)
    \/ EnsurePlatformSubscription
    \/ \E s \in SubIds :
          \/ BeginDecide(s) \/ BeginRotate(s) \/ Revoke(s)
          \/ \E v \in {"approved", "rejected"} : FinishDecide(s, v)
          \/ \E k \in Slots : FinishRotate(s, k)
    \/ \E q \in Requests : Refuse(q)
    \/ \E c \in Scopes, v \in Values \cup {NoValue} : WriteSettingOverride(c, v)
    \/ Obstruct
    \/ \E p \in Products \cup {Proxy} : DeleteProduct(p)
    \/ \E i \in Instances : MintInstance(i) \/ RevokeInstance(i)

Aged == SUBSET (Expirable(sub) \cup Replaceable(sub))

Next ==
    \/ Handlers
    \/ \E i \in Instances :
          \/ GoSilent(i) \/ Restart(i)
          \/ HandlePoll(i) \/ Adopt(i) \/ LoseAnswer(i)
    \/ \E due \in SUBSET Queued, aged \in Aged : RunDueJobs(due, aged) \/ Die(due, aged)

Spec == Init /\ [][Next]_vars

(* The job runner's interval fires and a pass gets through.  A live         *)
(* instance is heard from or is silent in the end; an answer to a poll      *)
(* retried often enough is adopted; in the end no restart loses a document. *)
Quiet ==
    \A i \in Instances : instance[i].row = "live" /\ held[i] # NoDoc => held'[i] # NoDoc
FairSpec ==
    /\ Spec
    /\ <>[][Quiet]_vars
    /\ WF_vars(\E due \in SUBSET Queued, aged \in Aged : RunDueJobs(due, aged))
    /\ \A i \in Instances :
          /\ WF_vars(GoSilent(i) \/ (instance[i].seen # "silent" /\ HandlePoll(i)))
          /\ SF_vars(Adopt(i))

-----------------------------------------------------------------------------
(* Properties *)

(* Cancelled, rejected and revoked are for good, and so is deletion: no      *)
(* decision, settling or second DELETE that overlaps or follows brings a    *)
(* subscription back.                                                       *)
TerminalForGood ==
    [][\A s \in SubIds : sub[s].state \in Terminal \cup {"deleted"} =>
          sub'[s].state \in {sub[s].state, "deleted"}]_vars

(* Only what was granted is honoured: no instance serves, or is on its way  *)
(* to serving, a subscription that is undecided, cancelled or rejected.     *)
Granted(d) ==
    d = NoDoc \/ \A s \in d.subs : sub[s].state \in {"activating", "active", "revoking", "revoked", "deleted"}
OnlyGrantedServed ==
    \A i \in Instances : Granted(held[i]) /\ (answer[i] = NoAnswer \/ Granted(answer[i]))

(* A key that was rotated away or has expired is in no document built from  *)
(* then on, whatever is rotated, aged or granted later.                     *)
DeadKeysStayDead == LiveKeys(sub) \cap dead = {}

(* Access is honoured only while it is granted and through a living key.    *)
OnlyLiveAccess == TypeOK /\ OnlyGrantedServed /\ DeadKeysStayDead

(* Access is called active only when it is: at that moment no instance that *)
(* could be serving traffic serves a document without the subscription.     *)
ActivationIsReal ==
    [][\A s \in SubIds : sub[s].state = "activating" /\ sub'[s].state = "active" =>
          \A i \in Counted : held[i] = NoDoc \/ s \in held[i].subs]_vars

(* Where the environment builds and its live instances have been heard of,  *)
(* a revocation completes and the instances stop honouring the keys, and    *)
(* granted access becomes active.                                           *)
Healthy ==
    /\ ~broken
    /\ Counted # {}
    /\ \A i \in Counted : instance[i].seen # "never"
Gone(s) ==
    /\ sub[s].state \in {"revoked", "deleted"}
    /\ \A i \in Counted : held[i] = NoDoc \/ s \notin held[i].subs
Settles ==
    <>[]Healthy =>
        \A s \in SubIds : /\ sub[s].state = "revoking" ~> Gone(s)
                          /\ sub[s].state = "activating" ~> sub[s].state # "activating"

-----------------------------------------------------------------------------
(* api/resources.ts of a transfer: "the new owner inherits the approvals".  *)
(* A request that awaits its decision is the product's owner's to decide.   *)
ApprovalsInherited ==
    \A s \in SubIds :
        sub[s].state = "pending" /\ sub[s].event = "awaiting-decision" =>
            sub[s].publisher = owner[sub[s].product]
=============================================================================
