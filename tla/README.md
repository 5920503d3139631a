# A TLA+ verification project for APIM

APIM is an API management platform. A **control plane** (`src/control-plane`, one process over one
SQLite database) keeps APIs, releases, subscriptions and keys, and builds a configuration document for
each gateway. **Gateways** (`src/data-plane`), any number of instances per environment, poll for that
document and answer traffic from it. `src/shared` holds what both sides must agree on, `src/ui` the portal.

This directory holds TLA+ modules translated from that code, the TLC configurations that check them on
small instances, and TLAPS proofs for every value of the constants. `PROJECT.json` lists the components,
the runs, the source lines behind every definition, the hazards and the theorems.

    tlc -workers 2 -config Release.cfg MCRelease      # one run
    tlapm ReleaseProofs.tla                           # one module's proofs

## 1. Inventory

### How the parts interact

    portal ──> control-plane handlers ──> SQLite tables <── job runner (every 500 ms)
                                              │                 integration events → key expiry →
                                              │                 operations, settling → reconcile jobs
                                          buildConfig
                                              │  digest, document
    gateway instance ──poll──> poll endpoint ─┘  document | unchanged | other wire version | 401 | error
        │ activate: settings, table, streams, cache file
    callers ──request──> pipeline ──> backend

- **Calls.** Handlers are synchronous between two `await`s, and the database driver is synchronous, so a
  handler without an `await` is one step. A handler that awaits its body *after* reading the database is two.
- **Shared state.** The `release`, `applied` and `route_gateway` tables have two writers, the reconcile jobs
  (`jobs.ts`) and the operation spine (`operations.ts`). They share only the row order.
- **Messages.** The one channel between the halves is the poll: it carries the digest an instance runs up and
  the next document down. There is no push; all knowledge of the fleet in the control plane is what the last
  poll said.
- **Callbacks and timers.** The job runner, the poll interval, stream ceilings, retention.

### Components

| Component | State | Operations | Hard behaviour | What makes it correct |
|---|---|---|---|---|
| Gateway configuration client `config-client.ts` | table, settings, cache file, decommissioned, the poll in flight | load from cache, poll, prefetch, activate, persist, fail closed | late and lost answers, ticks during a poll, restarts on other containers, version skew | answers act in order, a 401 is final, a failure changes nothing, the last document is served in the end |
| Request pipeline `pipeline.ts`, `concurrency.ts`, `ratelimit.ts`, `cache.ts`, `stream.ts`, `backend.ts` | slots, body budget, windows, breakers, response cache, validation queue, streams | identify, meter, read, validate, select, try, retry, answer, stream, record | an exit on every line, swaps under a request, deadlines, half-open probes | what is reserved is used or returned, one record each, no answer crosses a subscription or a document |
| Caches of an instance `identity.ts`, `jwt.ts`, `backend-auth.ts`, `artifacts.ts`, `accesslog.ts` | keys, introspections, tokens, artifacts, log files | fetch, keep, evict, rotate | keys rotated in a cooldown, ceilings, restarts, a rename that fails | what is kept is still good, every line in one file, in order |
| Poll endpoint `api/gateway.ts` | digest and last-seen per instance | authenticate, compare, answer | the digest is that of the request, not of the answer | never a document for a revoked token |
| Quota, telemetry `quota.ts` ×3, `telemetry.ts` ×3 | counters, unsent deltas, minute windows, buffers, rollup rows | count, send, accept, flush, acknowledge | a delta whose poll fails, late and repeated reports, two clocks | counted once, overshoot of one poll interval, figures between what was acknowledged and what happened |
| Releases and jobs `jobs.ts`, `promotion.ts`, `api/promotion.ts` | release rows, job queue, projection | confirm, withdraw, reconcile, retry, requeue | retries out of order, replays after a crash, paused gateways, two writers | one live release, the newest; withdrawal wins; the projection is the live release; gate kept |
| Operation spine `operations.ts` | operations, snapshots | publish, configure, promote, run, settle | commands that await between read and write; queue order under separate backoffs | snapshots in order, promotions carry what their source published, all complete |
| Drafts, revisions, retention `api/resources.ts`, `artifacts.ts`, `retention.ts` | resource rows, addresses, revisions, bundles, plans | edit, address, upload, correct, plan, release, prune, compile | edits that overlap, a correction racing a confirmation, pruning what a rollback needs | what was confirmed stands, what can be gone back to is there |
| Policies `shared/policy.ts`, `globals.ts`, `api/policy.ts` | an API's own units, the environment's | attach, detach, copy, disable, edit the tier, queue | the tier changes beneath every API and beneath what is queued | no write makes the build leave out an API; owners do not move what the environment sets |
| Trust, egress, credentials `api/trust.ts`, `trust-store.ts`, `deny-rules.ts`, `egress.ts`, `credentials.ts` | anchors, exceptions, rules, certificates, credentials, two caches | add, renew, delete, bind, configure, build | expiry at use, stale caches, deletion of what something queued names | trust ends when it was said to, denied backends are left out, unresolved references are reported |
| Subscriptions, keys, approvals `api/catalog.ts`, `integrations.ts`, `key-expiry.ts`, `kafka-proxy.ts` | subscription rows, two key slots, approval events | request, decide, rotate, expire, revoke, settle | overlapping decisions, rotation of what is being revoked, silent instances | only what was granted is served, dead keys stay dead, states settle |
| Sessions, users `auth*.ts`, `principals.ts`, `api/users.ts` | principals, sessions, flows, memberships, lockout | sign in, refresh, sign out, change and reset passwords, grant, disable | hashes and bodies that are awaited, rotating refresh tokens, two tabs | somebody can administer, old passwords open nothing, grants made here stand |
| Kafka workspace `kafka.ts`, `api/kafka-proxy.ts` | topics, grants, outbox, records | create, stage, request, decide, revoke, produce, read | decisions after the topic or certificate went, pruning | consumers get what was decided, records are read in order |
| Attention, uptime, capture, console `attention.ts`, `uptime.ts`, `api/logs.ts`, `playground.ts` | probes, windows, history | derive, probe, open, call | lists that read the tables a second time, overlapping probes, stale documents | trouble is listed, an outage is shown, a key stays inside |
| Portal `src/ui` | per screen: reads in flight, form, command, idempotency keys | ask, ask again, type, preview, save, leave | answers that overtake, lost acknowledgements, polling under a form | what is shown was asked for, a command acts once, drafts go only knowingly |
| Configuration build, settings, fleet `config-build.ts`, `settings.ts`, `api/fleet.ts` | overrides per scope, targets, instances | build, digest, create, pause, mint, revoke | different documents per gateway | the document compared is the document served |
| Routing, validators, normalisers, crypto, formatting, tools | none of their own | — | data, not control | not modelled (reasons in `PROJECT.json`) |

The hazards, places where this code can go wrong in ways a test hardly reaches, are in `PROJECT.json`
with the property that watches each one, and a note where the code does less than is written of it.

## 2. Modules

| Module | Models | Composes |
|---|---|---|
| `ServedDocument` | abstract: what a gateway instance promises the rest of the system | |
| `ConfigClient` | one gateway instance's poll loop, its cache, settings and streams, and the answers it gets | implements `ServedDocument` |
| `Release` | release rows, reconcile jobs, projection and gate of one API along the chain | |
| `Promotion` | the operation spine of that API | extends and implements `Release` |
| `Subscription` | subscriptions and keys of one environment against what its fleet serves | |
| `Pipeline` | requests of one instance through every stage, and all they share | |
| `Quota` | fleet-wide counters, from the instance through the poll to the table and back | |
| `Telemetry` | minute windows, reports, buffer and rollup | |
| `Accounts` | local sign-in, passwords, sessions, users | |
| `SignIn` | the identity provider's flow, claims, refresh, memberships | |
| `Drafts` | an API's rows, address, revisions, bundles, retention | |
| `Policy` | every unit, both tiers, every write of either | |
| `Attention` | the list that reads both | extends `Drafts` and `Policy` |
| `Trust` | anchors, exceptions, certificates, deny rules, credentials, and the document built from them | |
| `Kafka` | topics, grants, the outbox, the simulated broker | |
| `Monitor` | uptime probes, body capture, console | |
| `Edge` | key, introspection, token and artifact caches, access log | |
| `Screens` | one open screen of the portal and one of its forms | |
| `Sublists` | what of a sequence is in a set; used by `Edge` and `Quota` | |
| `ConfigClientProofs`, `ReleaseProofs`, `PromotionProofs`, `PipelineProofs` | theorems about the module each is named after | |
| `SubscriptionProofs` | theorems about `Subscription` and about the grants of `Kafka` | |
| `PortalProofs` | theorems about `SignIn`, `Accounts`, `Screens` | |
| `EstateProofs` | theorems about `Trust`, `Policy`, `Drafts`, `Attention` | |
| `GatewayProofs` | theorems about `Edge`, `Telemetry`, `Monitor`, `Quota` | |
| `MC*` | constants for TLC | |

Definitions with the comment `\* mutant` are plausible bugs. No specification uses them; each is put in
place of the definition after it to show that a property notices.

### ConfigClient

`polls` holds the polls in flight; a record's `stage` is the `await` it stands at (`sent`, then the answer it
was given, then `fetching` its artifacts), so everything else may happen between two stages. `PollOnce` is `pollOnce` with its
in-flight guard `PollGuard`; `Answer` is the control plane's handler; `Receive…` and `Activate` are the branches
of `pollExclusive`; `PollFails` is every way a request or body is lost; `Return` is the `finally`. `table`,
`settings`, `servingRefusal`, `activationBlocked`, `decommissioned` and `streams` are the fields of the same
names, `cacheFile` the cache on disk. `hist` is the sequence of control-plane states this instance could observe, and
`at` (history) the position of the newest one acted on: `AnswersInOrder` is stated with it. Documents are described
by what the code asks of them: their subscriptions, whether a small container can honour their settings, whether
they need client certificates. A restart may be on another container (`roomy`) and another build (`wire`).

### Release

`rel` is the `release` table in rowid order, `job` the queue, `applied` and `bound` the projection. A pass of
`runDueJobs` is the steps of `pass[p]`: operations, select, then per job *take* (commit), *reconcile* (commit),
*mark* (commit), so a process can die between any two commits and a job that was running is requeued a minute later
(`Stuck`) and replayed. `Reconcile` has one disjunct per branch of `reconcile`: `Gone`, `Throws`, `Removes`,
`Overtaken`, `GoesStale`, `Blocked`, `Applies`, `Replayed`. `SpineWrites` is the second writer, seen from the
tables. Deleting the API enqueues removals, runs the pass and then deletes the row (`EndPass`). Production
runs one replica (`src/README.md`); the lease allows for several, and so does `Processes` in the proofs.

### Promotion

Adds the operation table, the commands between their halves (`request`: what `configure` and `promote` read before
they await), `runOperations` step by step, and the fleet's acknowledgement (`acked`), which any change of the document
resets. `ImplementsRelease` is refinement under the identity mapping: every step is a step of `Release` or
leaves its variables alone.

### Subscription

A key is its row, its slot and its generation. A document is what `fleetApplied` compares by digest: subscriptions,
live keys, the resolved setting, and whether the build reported errors. `held` is what an instance serves,
`instance[i].reported` what the control plane last heard, `answer` a response on its way, which may be lost. `request`
counts decisions and rotations between their two halves. `RunDueJobs` does what a pass does in the order it does it:
deliver the approval events, expire keys, replace the platform's, settle. `Die` stops it before it settles. `dead`
(history) holds the keys rotated away or expired.

### Pipeline

A request is a record whose `stage` says which `await` it stands at; `gate`, `budget`, `window`, `breaker`, `cache` and `queue`
are what the objects of those names hold. `policy` is a deployment: what kind of route it is, chosen at the start. What a check
decides from data (an address, a token, a schema) is a choice between `Deny` and going on. Requests may be left by their caller at any `await`,
and `Activate` may swap the document under them.

### Quota, Telemetry

Both are cut out of the poll: `qpoll` and `tpoll` are polls in flight with what they carried, `late` and `strays` reports whose
instance has given up. `admitted`, `lost`, `recorded`, `kept` are histories the conservation laws are stated with; `disturbed` and `excused` say
which figures a crash, a full table or a stray has touched, and the laws that such an event really breaks exempt them by name.

`counters[i].order` is the map's keys in the order of `touchedAtMs`, which is what `evictOldest` goes by; two touches are taken to fall in different milliseconds. An answer
informs a counter without touching it, as in `applyAggregates`. Rows written by one flush share their `updated_at`, and `ORDER BY updated_at DESC LIMIT` may cut among them anywhere: `newer` says which row was
written later, and `RowsRead` is every set such a query may return, of which those whose window is open take part in the answer. A late report may reach the control plane in any portions, so that
two instances' late reports need not be told apart. `Tally` is the sum of a function's values, written as the number of pairs (argument, unit), which TLC counts and the prover can reason about.
A key is `disturbed` by what a mishap leaves unsaid (`Unsaid`), by a live counter that is turned out while it holds something (`Forgotten`), and by a total the capped answer holds back (`Withheld`).

### Accounts, SignIn

A handler that awaits a body or a hash is two actions with the row it read in `request`; a wait for the provider is a stage of a `task`. The provider is
external: `idp` holds its claims and the one refresh token it accepts for each session.

### Drafts, Policy, Attention

`draft` holds what a waiting request read. Revisions are known by digest, their bundles by what they compile to. A policy document is a function from unit keys
to records, each validated by an operator named after its validator, and `PolicyFor`, `ActiveDocument` and the cross-unit rules decide whether the build serves the API.
`Attention` restates the SQL of the list over the same variables, so that it can be compared with what is served.

### Trust

Everything with an expiry runs on one clock, `day`. A host is the sequence of its labels, so that suffix rules are decided as the code decides them.
`document` is what the gateway serves, of any age; `BuildConfig` is what would be built now.

### Kafka, Monitor, Edge

Independent areas of state; an MC module picks one area per behaviour, since nothing in one is read in another. `Edge` keeps ages and remaining
lifetimes instead of clocks.

### Screens

The machinery is modelled once: `useAsync`, `useAction`, the leave guard, the ticker, the idempotency keys. Every screen and every form of the portal is one record
that says how it uses that machinery (does its question change in place, does it poll, is it unmounted while loading, does a save carry a key or an
`If-Match`, what follows it, does it ask before leaving), and the initial state picks a screen with one of its forms. What differs between screens beyond that is layout.

## 3. Runs

Several components share a run where a behaviour can be about one of them at a time (`subject`, `area` in the MC modules). Deadlock is checked in the runs
of single modules that never stop; the shared runs and `channel` end at their bounds.

| Run | Question | Bounds | States |
|---|---|---|---|
| `config_client` | does one instance keep its promise through every interleaving, and converge? | 3 documents that differ in all activation asks, 2 subscriptions, 3 control-plane states, 2 wire versions | 143,396 |
| `release` | is the release table right under retries, replays, crashes, pauses and both writers? | chain of 2, three gateways of which one comes and goes, build errors in the second stage, 2 releases, 2 jobs | 2,238,704 |
| `promotion` | are snapshots in order, does a promotion carry its source and wait for it, does the spine implement `Release`? | chain of 2, 2 revisions (symmetric: nothing tells them apart), 3 operations, 2 commands in flight | 944,432 |
| `spine_live` | does every job finish and every operation complete? | one environment, a gateway that comes and goes, build errors, 3 releases, 1 job, 2 operations | 193,012 |
| `subscription` | is only what was granted served, do dead keys and ended subscriptions stay so? | one subscription, two generations of its primary key, both slots age, 2 handlers in flight, one of: build errors, transfer, product deleted | 665,522 |
| `subscription_fleet` | is "active" true, and does everything settle? | two gateways with one instance each, an override for one of them | 188,708 |
| `pipeline` | does every exit account for what it took, and is each answer its caller's? | 2 requests, 6 kinds of route, 2 documents with different limits, 2 backends, 2 failures to open, 1 probe | 1,149,720 |
| `channel` | is each call counted once, and each figure kept? | 2 instances, allowance 1, 2 windows, one mishap; 2 runs, 2 minutes, 2 series with room for one or two, one trouble | 664,817 |
| `estate` | do drafts, policies and trust keep what was confirmed and end what ends? | 2 APIs, 2 revisions, 2 releases, 3 requests of which two overlap; every unit with values on both sides of its limits, 2 tiers and environments; 2 anchors, 2 rules, 4 days | 297,657 |
| `portal` | who is in, who may do what, and what do they see? | 2 users, 2 sessions, 4 requests of which two overlap; 2 flows, 2 sessions, 3 turns of the provider; every screen, 2 reads in flight, 2 texts | 251,130 |
| `workspace` | do the workspace, the monitors and the caches keep what they say? | 2 stages, 3 grants, 6 records of which 3 are kept; 2 gateways of which one comes late; 2 keys, a cooldown of 2, 3 log files, 8 lines | 205,917 |
| `subscription_lone_gateway` | **violated**: with one gateway that has a setting of its own, everything settles | | |

A property of a run is often a conjunction (`AdmissionSound`, `TrustEnds`, `ScreenIsCurrent`...); its conjuncts are defined and explained one by one above it.

### Why the bounds are enough

- The order properties need two things to be out of order: two releases, two operations of one environment (three in all,
  so that a promotion can be captured between two configures), two answers with a change between them.
- The gate needs a chain of two; "half published" needs an environment of two gateways.
- A job needs to be able to be stuck, replayed and overtaken: one job of an old release and one of a newer one or of a withdrawal.
- A dead key comes back only across a second generation of the same slot. A stale decision or rotation needs one other
  request to overtake it. Different rows do not interact in the code except through the uniqueness of the current
  subscription of an application to a product, which one row id exercises (a second request finds it taken); the proofs hold for any number.
- Settling needs two instances that disagree, and two documents at once, hence two gateways and an override.
- A slot, a probe or a cache entry is misused by one request on account of another: two, with documents whose limits and subscriptions differ.
- A quota is overshot by a second instance, and a delta counted twice by a second poll; an allowance of 1 makes every call the last.
- Every awaiting handler can be overtaken once: two requests in flight. The retention of one revision needs two of them and two releases, so that the older is the one to roll back to.
- A unit is offered with a value just inside and one just outside each limit it has; two units suffice for the rules between units.

Every property has a mutant: the definition of the code it is about is replaced by a plausible bug (the in-flight guard dropped,
the `finally` lost, a decision that does not look again, a cache key without its digest...), and TLC then finds the property violated. Conjuncts
of one property have such definitions of their own beside the code they are about; `PROJECT.json` names one for each property.

### Fairness, and why the code justifies it

- **ConfigClient.** Weak fairness of the poll timer (`setInterval`) and of the start of a stopped container (its supervisor). Strong
  fairness of an answer being given, read and its artifacts fetched: a poll that is retried for ever is not lost for ever. Nothing
  is assumed of the control plane, of revocations or of traffic.
- **Release.** Weak fairness of the runner's interval and of the statements of a pass that nothing disables; strong fairness per job
  of being selected (the backoff is at most five minutes, and a stuck job is requeued after one) and of each committing
  statement, so a process that dies again and again does get through eventually.
- **Promotion.** The same for operations. In addition, in the end no pass is cut short and nothing outside this API
  changes the document: an operation completes only when the fleet has reported the very document of that moment, so an
  environment whose document never rests never completes anything. Gateways keep polling.
- **Subscription.** A pass gets through in the end; a live instance is heard from or becomes silent (`GoSilent` is the passing of the time
  after which `fleetApplied` no longer counts it); the answer to a poll repeated often enough is adopted; in the end no restart loses
  a document (a restart without a usable cache serves nothing until its first poll).

- **Monitor, Edge.** Weak fairness of the monitor's start, of its timers and of the end of a probe (each has a timeout); of time and of a caller that tries again;
  strong fairness of the issuer answering, since a fetch that fails is repeated after the cooldown. `OutageIsShown` and `RotationHeals` need no more.

The liveness properties are conditional on the environment being able to make progress (`Ready`, `Healthy`, `Servable`): a paused
gateway rightly holds a change for as long as it is paused.

### Finding

**One gateway with a setting of its own settles nothing** (`subscription_lone_gateway`). `fleetApplied` compares with the environment-wide document when there is
one gateway; that document resolves no gateway-scope setting, the one served does. Digests never agree, so operations
stay waiting and subscriptions stay activating or revoking.

### Statements the models do not support

These are comments and specifications of the repository, stated as formulas in the modules, that the code does not keep to. TLC refutes each when it is given to
the run of its module; they are not kept as runs of their own, and the hazard at the line says so.

| Formula | What is written | What the code does |
|---|---|---|
| `ConfigClient.StreamsFollowDocument` | `stream.ts:53`: every open stream can be closed by a poll | a request admitted under the old table registers its stream after the swap has closed the revoked ones |
| `Promotion.WithdrawalOutlastsQueue` | `api-versioning-and-stage/spec.md:300`: the API stays withdrawn | an operation that was retrying publishes it again |
| `Subscription.ApprovalsInherited` | `api/resources.ts:1060`: the new owner inherits the approvals | the event stays with the old application, which can no longer decide it |
| `Pipeline.OpenUntilProbed` | `backend-integration-surface/spec.md:81`: not selected until the interval elapses | a call answered late closes an open breaker |
| `Pipeline.SampledBodyIsForwarded` | `pipeline.ts:2499`: the request proceeds with one copy | over the cap it proceeds with none |
| `Telemetry.TotalsAgree` | data plane `telemetry.ts:103`: sent = counted = the control plane's sum | requests counted between the snapshot and the end of the minute are cleared unreported |
| `Accounts.AdminRemains` | `auth-and-access/spec.md`: the last enabled administrator cannot be removed | an edit that read its target before it became the last one removes it |
| `Drafts.PublishedHasDefinition` | `retention.ts:72`, `api/promotion.ts:52`: what is released has its definition | uploading the content of a pruned latest revision is answered `unchanged`, and it can be released empty |
| `Policy.NeverLeftOut` | `config-build.ts:361`: it cannot happen through the API | an administrator's detach is judged without the value the API falls back to |
| `Attention.OffMeansOff` | `shared/policy.ts:131`: off means the same on a screen and at the gateway | a unit the environment switches off counts as attached |
| `Trust.ExceptionCovers` | `config-build.ts:193`: a value covers exactly one backend | the mode of one exception is the whole route's |
| `Kafka.OffsetsGrow` | `kafka-playground/spec.md:62`: offsets grow | a partition whose records were pruned begins again |
| `Monitor.LateOutageIsShown` | `uptime.ts:121`: a gateway that was added is noticed | timers are started once, for the gateways of that moment |
| `Edge.LagIsTheRoutes`, `Edge.ActiveIsKept` | `identity.ts:202`, `artifacts.ts:224`: the TTL bounds the lag; eviction spares what is needed | the entry of one route serves another with a shorter TTL; a restart with a lower ceiling evicts what is served |
| `Screens.DraftsSurvivePolling`, `Screens.PreviewIsOfDraft` | `portal-shell-navigation/spec.md:22`: polling does not take what is typed | the topic form is rebuilt when its row is read again; a preview may answer an earlier draft |

Further observations without a formula: `revoked` can be shown one poll before an instance lets go of a key, when a document returns to an earlier value (`operations.ts:1182`);
a withdrawal held by a pause takes down a release confirmed after it (`jobs.ts:164`); a configure that awaited can put back the revision a promotion replaced (`operations.ts:787`);
a PATCH of a gateway writes back the columns it read before its body, a pause included (`api/fleet.ts:546`); a restart after a 401 whose first poll fails serves the cached
routes (`config-client.ts:111`); one API's build error holds every operation of its environment (`operations.ts:1346`).

## 4. Proofs

All theorems hold for every value of the constants that satisfies the named assumptions, which say only that the
"no such thing" values are not things, that functions have the domains the tables give them, and that the bounds are numbers.
Each proof shows that an inductive invariant holds initially, is preserved by every action (one step per action) and implies the property.

**ConfigClientProofs.** `IInv` is `TypeOK`, *OnePoll* (at most one poll is in flight, exactly while the guard is up), *AnswersTrue*
(its answer was built from a state no earlier than the newest acted on, and says what that state says), *CacheAdopted* (the file
holds a document adopted earlier) and `FailClosed`. `AnswersInOrder` is not inductive without the first two: it is because there
is one poll that its answer cannot be older than one already acted on. `InstanceSound` adds *Enforced*: a refusal is of the document in
the table, the settings are those of that document, and there is no traffic before there is a table. Theorems: `TypeCorrect`, `FailsClosed`, `SoundInstance`,
`Ordered`, `RevocationFinal`, `StaysStatic`, `StreamsClose` (together `AnswersAlwaysStand`), and `Refinement`: the poll loop implements `ServedDocument`.

**ReleaseProofs.** `IInv` is `TypeOK`, *JobsFilled* (ids in use are those handed out), *PassesKnown* (a pass works on jobs that exist) and *RowInv*: rows
are filled in order, what was withdrawn stays below the floor, `OneLive`, `LiveIsNewest`, `AppliedIsLive`. The last three need each
other: that a job may make its release live rests on no newer one having reached the fleet, and the projection on there being one live row.
Theorems: `TypeCorrect`, `OneLiveRelease`, `NewestIsLive`, `WithdrawalFinal` (together `NothingReturns`), `ProjectionTrue`, `GateAlwaysHeld`, `HistoryKept`, `PauseRespected` (together `JobsStayTheirs`).

**PromotionProofs.** `PInv` adds to `IInv` that operations, commands in flight and passes refer to operations that exist, that a promotion's and a
promote command's revision is its parent's (*OpsSound*, *RequestsSound*), and that what was applied has reached its fleet and the stage it was captured from (*Arrived*).
Theorems: `PromotionTypeCorrect`, `ReleaseImplemented` (so all of `ReleaseProofs` holds of the composition; `PromotionKeepsOrder` spells
it out), `PromotionFaithful`, `PromotionGated` (together `PromotionsFollowTheirs`), and `SnapshotsOrdered`: snapshots are written in the order they were
queued **while one process runs the spine**, which is how production runs (`src/README.md`). The hypothesis is needed: a pass selects what is due and then runs it row by row without
looking again (`operations.ts:1192`), so a second process with an older selection can write an operation that the first has already settled, and TLC shows it with
two. Its invariant *OrderInv* says just that: what a pass has selected and not run is still pending (*DuePending*), and everything queued before the operation last
written is complete (*WrittenLast*).

**SubscriptionProofs.** `IInv` is `TypeOK`, *RowsFilled* (unused rows are empty), *DeadKnown* (a dead key's generation is below its
slot's, or the slot is marked expired) and *DocInv*: documents served, reported and on their way name only granted rows, and while a row is activating an
instance that reported it serves it, and is being sent nothing without it (*Carried*, which makes `ActivationIsReal` follow
from reports alone). Theorems: `TypeCorrect`, `OnlyGranted`,
`DeadStayDead` (together `LiveAccessOnly`), `EndsAreFinal`, `ActivationTrue`. A second part proves `ConsumersServed` of `Kafka`, for every stage at once: a row that is or will be in force is the publisher's
or its request's event says "approved" (*Backed*, which the outbox keeps since events are only added and delivered); in each partition offsets rise with the rows (*RecordsHold*, which pruning from the old end
keeps), and a read takes rows by rank, of which there is one for each (`Ranked`).

**PipelineProofs.** `PInv` is *Shared* (breakers, cache, windows, queue), *Each* and *Counts*. *Counts* equates the counters with sets of requests: slots in use with the
requests past admission, the budget with the readers, so that each release is matched by the one admission it undoes (`CountOne`: one element more or less). A breaker that is half open has let through
exactly what it counts in flight, a streamed body's one attempt is its first, a cache entry carries the digest and, where the route varies, the subscription of its key.
Theorems: `Admission_Sound`, `Each_Once`, `Answers_Own`, for any number of requests, routes and callers and any deployment.

**PortalProofs.** Three components, each with its own invariant. *OInv* (`SignIn`): a flow's row goes to one callback and its code has not been presented before (*FlowsHeldOnce*);
until a session is excused, its row, its one refresh and the provider agree on the token, the provider being one ahead only between its answer and the write (*RefreshesAgree*).
*AInv* (`Accounts`): the rows and what waiting requests read, `LastAdminKept` and `OnlyTheChangerStays`, where a row that is spared by a password change is named in `spared`.
*CInv* (`Screens`): what is in flight was asked for and is the only read (*ReadsAreAsked*), no read in flight is older than the last acknowledged save (*ReadsAreNew*), a text whose fate
is unknown keeps its key (*KeysAreKept*), and a guarded form is drawn again only after a save (*DraftsStand*). Theorems: `Sessions_Hold`, `Grants_Stand`, `Accounts_Hold`, `Screen_Is_Current`, `Drafts_Kept`.

**EstateProofs.** *TInv* (`Trust`): each cached bundle holds what is in force until the earliest expiry in it, the rule cache holds the live rules, and every relaxed backend of the
document has its exception row. *YInv* (`Policy`): both tiers have their shape and a list of disabled units is a list. *DInv* (`Drafts`): rows, waiting edits, releases and
the queue name only what is there, a pruned body is empty, `BundlesKept`, and what was superseded was superseded by something (*SupersededByOne*). Theorems: `Trust_Ends`, `Blocked_Left_Out`, `Unresolved_Reported`;
`Owners_Leave_Globals`, `Writes_Keep_Serving`; `Revisions_Stand`; and `Trouble_Is_Listed`, of the composition, **where the list has room for the two rows an API may have**: the list is cut at
`MaxAttention` (`attention.ts`), and with more trouble than that it leaves some out, as it should.

**GatewayProofs.** `KeptGood` is of three caches of `Edge`. *JInv* (introspection): an answer kept or being asked for is no older than the token's standing allows, by the ages of both, one entry per token.
*UInv* (backend token): what is left of it and its age add up to no more than its lifetime. *VInv* (artifacts): what is in memory is good and on the disk, and a complete document has all it needs in memory. It is
**stated for a request timeout within the skew** (`Timeout <= Skew`): a token ages from its issue while what is left of it is counted from the answer, and the code's ten-second timeout and thirty-second
skew (`backend-auth.ts:94`, `:101`) are what make up the difference. `LogWhole` (*LInv*): the files, the open one and the buffer, read from the oldest, are the lines written less a prefix
that was dropped, for any number of files, any ceiling lowered at any time and wherever a rotation breaks off. `FiguresStand` (*GInv*): nothing on the way
holds more than was counted (*NoMoreThanCounted*), a window is acknowledged once, after it has closed (*OnceAcknowledged*), and what was acknowledged is in the buffer or the rows (*StillShown*); each is
stated cell by cell, a series of a minute of a run. `KeepsAsSaid` (*MInv*, `Monitor`): every logged minute is covered by a window, a document's end is some window's, one window is live, and the history has at most
its number of rows; **where any history is kept at all**, since `PLAYGROUND_HISTORY_PER_RESOURCE` may be 0 (`config.ts:578`) and then an answered call is on no record. It assumes that nobody types the vault's key by hand: `Calls` are what a
person enters, and the key is in the vault alone.

`QuotaKept` (*QInv*, `Quota`) is about figures of one key. Over a counter's map *Tidy* says that its keys are distinct and that where there is no counter the figures are 0; *PollHolds* what a poll in
flight carries at each stage. Per key, on the record of all its figures (`CellOf`), *KeyInv* is: *CountedOnce*, the conservation law; *ToldWhatIs*, no instance knows, and no answer carries, more than
the control plane has counted or something has lost; and *Paced*, which bounds the overshoot. For that each instance has a share of the calls admitted, which the proof finds a witness for at each step: what it has made is at least what it
still holds and at most twice the allowance, and what it has made beyond that is within what it knows or is being told (*InStep*), since it checked against the allowance with that in hand. A window that has not begun has no calls. `OneStep` and `StillStep`
reduce every action to what it does to the figures of each key: either it changes one instance's (`KeyMoves`) or nothing but the shared ones (`StillMoves`). A sum moves with its one element by `TallyChanges`, and the recursive function in
`ApplyAggregates` is gone through by `Iterates`. `QInv` is needed because the three laws do not stand by themselves: that nobody is overcharged rests on what answers in flight hold, and the overshoot on what each instance has still to be told.

**Two lemmas that reach further than their proofs.** `LeastNat` (a nonempty set of naturals has a least member, from the well-foundedness of `<`) gives induction over a recursive function or a
cardinality by the least counterexample, where the library's induction theorems take an operator and cannot be used. `MaxIsGreatest` and `Ranked` are had with it, by induction on the size of the set.

**Only model-checked:** the liveness properties (`Converges`, `JobsFinish`, `OperationsComplete`, `Settles`, `OutageIsShown`, `RotationHeals`), which need fairness and are outside
the prover. Every other property of a passing run, invariant, action property or refinement, is stated by a theorem.

## 5. Abstractions and what is left out

Permissions, validation of bodies, audit rows, mails, the wording of errors and logs are left out everywhere: a request that is refused
changes nothing. A document is its digest with what the properties ask of it. Time is what may have happened: a backoff that
may be over, an age that may be reached, an instance that may have been silent long enough. The target lease is a retriable failure. Each
module's header lists what it leaves out; `PROJECT.json` gives the reason for every component that is not modelled.

Not modelled: routing and operation match, the validators, the definition normalisers and the diff are functions of strings and documents with no state; cryptography is outside
TLC; sharing, imports from a URL, synthetic checks, notification preferences, environment administration and the read-only projections change nothing the modelled parts rely on;
`tools`, `scripts`, `e2e` and the Lean models of `formal` are not the running system. Twenty-seven components are modelled in part: their notes in `PROJECT.json` say what is left out.

## 6. Plan

The modules were built in this order: how anything reaches a gateway (`ConfigClient`), what is live (`Release`), how it gets there (`Promotion`), who may call it (`Subscription`),
what a call goes through (`Pipeline`, `Quota`, `Telemetry`), who administers it (`Accounts`, `SignIn`), what they edit (`Drafts`, `Policy`, `Trust`, `Attention`), and what stands beside it
(`Kafka`, `Monitor`, `Edge`, `Screens`).

The proofs followed the same order and reach every safety property the passing runs check. What remains for a prover with a temporal logic of fairness are the liveness properties of §3.
What remains to be modelled is named in §5.
