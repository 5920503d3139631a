------------------------------- MODULE Policy -------------------------------
(***************************************************************************)
(* Policy units: what each may hold (shared/policy.ts), the environment-   *)
(* wide tier beneath an API's own units (control-plane/src/globals.ts), and *)
(* the edits of both (api/policy.ts, api/resources.ts, api/promotion.ts,   *)
(* operations.ts).  A document is a function from the keys it carries to   *)
(* records; a list is the set of its members; JSON of the wrong type, which *)
(* every validator refuses first, is left out.  Names, references, origins *)
(* and templates are known by whether the source's pattern accepts them.   *)
(***************************************************************************)
EXTENDS Integers, FiniteSets, Functions

CONSTANTS
    PolicyApis, KindOf,       \* APIs served in every environment, and their kinds
    PolicyEnvs,
    Offers,                   \* [key, value] records somebody may send
    HeaderNames,              \* names HEADER_NAME accepts
    Refs, CredentialRefs,     \* names REF_NAME, and the credential patterns, accept
    MaxUnits                  \* bound on the units stored in all documents together

ASSUME PolicyAssumption ==
    /\ DOMAIN KindOf = PolicyApis /\ MaxUnits \in Nat
    /\ \A x \in Offers : x.key = "disabled" => "units" \in DOMAIN x.value

VARIABLES
    own,      \* policy_entry: own[api][env] is a document
    global,   \* global_policy_entry: global[env] is a document
    queue,    \* configure operations not applied yet
    edit      \* the last write: who asked for it, and where it went

pvars == <<own, global, queue, edit>>

-----------------------------------------------------------------------------
(* What one unit may hold. *)

Only(v, fields) == DOMAIN v \subseteq fields
Has(v, f) == f \in DOMAIN v
Get(v, f, default) == IF Has(v, f) THEN v[f] ELSE default
Within(v, f, lo, hi) == Has(v, f) => lo <= v[f] /\ v[f] <= hi
Required(v, f, lo, hi) == Has(v, f) /\ Within(v, f, lo, hi)
OneOf(v, f, S) == Has(v, f) => v[f] \in S
Names(v, f) == Has(v, f) => v[f] \subseteq HeaderNames
Methods == {"GET", "PUT", "POST", "DELETE", "PATCH", "HEAD", "OPTIONS", "TRACE"}

(* A map of header names to templates: a set of [name, ok] records. *)
StringMap(v, f) == Has(v, f) => \A h \in v[f] : h.name \in HeaderNames /\ h.ok

(* A pattern, by what lintPattern looks for. *)
LintPattern(p) ==
    /\ p.length <= 200 /\ p.bound <= 1000 /\ p.compiles
    /\ ~p.backreference /\ ~p.lookaround /\ ~p.nested

CidrOk(c) == Cardinality(DOMAIN c.ip) = 4 /\ (\A i \in DOMAIN c.ip : c.ip[i] \in 0..255)
             /\ c.bits \in 0..32

SubscriptionKeyOk(v) ==
    /\ Only(v, {"in", "name", "forwardCredentials"})
    /\ Has(v, "in") /\ v.in \in {"header", "query"}
    /\ Has(v, "name") /\ v.name # "" /\ (v.in = "header" => v.name \in HeaderNames)
BasicOk(v) ==
    /\ Only(v, {"credentialRef", "realm", "forwardCredentials"})
    /\ Has(v, "credentialRef") /\ v.credentialRef \in CredentialRefs
JwtOk(v) ==
    /\ Only(v, {"issuerRef", "headerName", "scheme", "audience", "requiredScopes",
                "scopeMap", "clockSkewSec", "forwardCredentials"})
    /\ Has(v, "issuerRef") /\ v.issuerRef \in Refs
    /\ OneOf(v, "headerName", HeaderNames) /\ Within(v, "clockSkewSec", 0, 300)
IntrospectionOk(v) ==
    /\ Only(v, {"issuerRef", "cacheTtlSec", "requiredScopes", "forwardCredentials"})
    /\ Has(v, "issuerRef") /\ v.issuerRef \in Refs /\ Within(v, "cacheTtlSec", 0, 3600)
(* A unit that accepts every certificate, or any issuer's with the name,   *)
(* unless that is acknowledged, is refused.                                *)
MtlsOk(v) ==
    LET issuers == Get(v, "allowedIssuers", {})
        cns == Get(v, "allowedSubjectCns", {})
    IN /\ Only(v, {"allowedIssuers", "allowedSubjectCns", "allowedSans", "acknowledgeCnOnly"})
       /\ issuers \cup cns \cup Get(v, "allowedSans", {}) # {}
       /\ cns # {} /\ issuers = {} => Get(v, "acknowledgeCnOnly", FALSE)
IpAllowOk(v) == v.ranges # {} /\ Cardinality(v.ranges) <= 64 /\ \A c \in v.ranges : CidrOk(c)
CorsOk(v) ==
    /\ Only(v, {"origins", "methods", "headers", "exposeHeaders", "credentials", "maxAgeSec"})
    /\ Has(v, "origins") /\ v.origins # {} /\ "not-an-origin" \notin v.origins
    /\ OneOf(v, "methods", SUBSET Methods) /\ Names(v, "headers") /\ Names(v, "exposeHeaders")
    /\ Within(v, "maxAgeSec", 0, 86400)
    /\ ~("*" \in v.origins /\ Get(v, "credentials", FALSE))

(* Exactly one check, and in it exactly one way to compare. *)
ValidateCheck(r) ==
    LET checks == {"requireHeader", "requireQuery", "requireClientCert", "requireOperation"}
        modes(c) == DOMAIN c \cap {"present", "equals", "pattern", "credentialRef"}
    IN /\ Cardinality(DOMAIN r \cap checks) = 1
       /\ \A f \in DOMAIN r \cap {"requireHeader", "requireQuery"} :
            LET c == r[f] IN
            /\ Only(c, {"name", "present", "equals", "pattern", "credentialRef"})
            /\ Has(c, "name") /\ Cardinality(modes(c)) = 1
            /\ f = "requireHeader" => c.name \in HeaderNames
            /\ f = "requireQuery" => ~Has(c, "credentialRef")
            /\ OneOf(c, "present", {TRUE}) /\ OneOf(c, "credentialRef", CredentialRefs)
            /\ Has(c, "pattern") => LintPattern(c.pattern)
       /\ Has(r, "requireClientCert") =>
            DOMAIN r.requireClientCert # {} /\ Only(r.requireClientCert, {"issuers", "subjectCns", "sans"})
       /\ Has(r, "requireOperation") =>
            DOMAIN r.requireOperation = {"methods"} /\ r.requireOperation.methods \in SUBSET Methods \ {{}}
PreconditionsOk(v) ==
    /\ v.rules # {} /\ Cardinality(v.rules) <= 20
    /\ \A r \in v.rules :
          /\ ValidateCheck(r) /\ Has(r, "deny")
          /\ Only(r.deny, {"status", "reason", "headers", "body"})
          /\ Required(r.deny, "status", 400, 599)
          /\ Has(r.deny, "reason") /\ r.deny.reason # "" /\ StringMap(r.deny, "headers")

States == {"blocking", "warning", "disabled"}
(* VALIDATE_DEFAULTS: a request is validated unless somebody says why not. *)
AsksRequest(v) == Get(v, "request", "blocking")
AsksResponse(v) == Get(v, "response", "disabled")
AlwaysOk(w) ==
    /\ Only(w, {"contentType", "maxBodyBytes", "maxDepth", "json", "xml"})
    /\ Within(w, "maxBodyBytes", 1, 1073741824) /\ Within(w, "maxDepth", 1, 512)
    /\ Has(w, "json") => /\ Only(w.json, {"maxArrayLength", "duplicateKeys"})
                         /\ Within(w.json, "maxArrayLength", 1, 10000000)
                         /\ OneOf(w.json, "duplicateKeys", {"reject", "last-wins"})
    /\ Has(w, "xml") => Only(w.xml, {"maxElements"}) /\ Within(w.xml, "maxElements", 1, 10000000)
SampleOk(s) ==
    /\ Only(s, {"alwaysUnderBytes", "rate", "coldStart", "onFailureEscalateSec", "key"})
    /\ Required(s, "rate", 1, 100)                \* percent: 0 < rate <= 1
    /\ Within(s, "alwaysUnderBytes", 0, 16777216) /\ Within(s, "coldStart", 0, 10000)
    /\ Within(s, "onFailureEscalateSec", 0, 86400)
    /\ OneOf(s, "key", SUBSET {"operation", "subscription"})
ValidateOk(v, scoped) ==
    /\ Only(v, {"request", "response", "downgradeReason", "headers", "body", "always",
                "sample", "maxConcurrent", "onSaturated", "logEvents"})
    /\ OneOf(v, "request", States) /\ OneOf(v, "response", States)
    /\ IF AsksRequest(v) = "blocking" THEN ~Has(v, "downgradeReason")
       ELSE Has(v, "downgradeReason") /\ v.downgradeReason = "long enough"
    /\ Has(v, "always") => ~scoped /\ AlwaysOk(v.always)
    /\ Has(v, "sample") => SampleOk(v.sample) /\ {AsksRequest(v), AsksResponse(v)} # {"blocking"}
    /\ Within(v, "maxConcurrent", 1, 64) /\ OneOf(v, "onSaturated", {"skip"})
    /\ Has(v, "logEvents") => /\ Only(v.logEvents, {"includeBodyExcerptBytes"})
                              /\ Within(v.logEvents, "includeBodyExcerptBytes", 0, 4096)
RewriteOk(v) ==
    /\ Only(v, {"stripBasePath", "path", "copyUnmatchedParams", "query"})
    /\ OneOf(v, "path", {"/template"})            \* rooted, no query string or fragment
    /\ Has(v, "query") => Only(v.query, {"set", "remove"}) /\ StringMap(v.query, "set")
HeaderRulesOk(v) ==
    /\ Only(v, {"remove", "set", "append", "skip"}) /\ Names(v, "remove")
    /\ \A f \in {"set", "append", "skip"} : StringMap(v, f)
TransformOk(v) ==
    /\ Only(v, {"request", "response"}) /\ OneOf(v, "request", {"none"})
    /\ OneOf(v, "response", {"none", "soap-to-json"})
KafkaProduceOk(v) == DOMAIN v = {"clusterId"} /\ v.clusterId \in Refs
CacheOk(v) ==
    /\ Only(v, {"ttlSec", "vary", "varyBySubscription", "mustRevalidate", "downstream", "maxBodyBytes"})
    /\ Required(v, "ttlSec", 1, 86400) /\ Names(v, "vary")
    /\ OneOf(v, "downstream", {"public", "private", "none"}) /\ Within(v, "maxBodyBytes", 1, 33554432)
CountedOk(v, per, lo, hi) ==
    /\ Only(v, {"calls", "periodSec", "per", "by", "scope", "emitHeaders"})
    /\ Has(v, "calls") /\ v.calls >= 1 /\ Required(v, "periodSec", lo, hi)
    /\ Has(v, "per") /\ v.per = per /\ Has(v, "by") /\ v.by = "subscription"
    /\ Has(v, "scope") /\ v.scope \in {"route", "product"}
RateLimitOk(v) == CountedOk(v, "instance", 1, 86400)
QuotaOk(v) == CountedOk(v, "fleet", 60, 366 * 86400)
TimeoutOk(v) == DOMAIN v = {"ms"} /\ v.ms \in 1..240000
RetriesOk(v) ==
    /\ Only(v, {"attempts", "on", "idempotentOnly"}) /\ Required(v, "attempts", 1, 5)
    /\ Has(v, "on") /\ v.on \in SUBSET {"502", "503", "504", "timeout", "connect"} \ {{}}
CircuitBreakerOk(v) ==
    /\ Only(v, {"failures", "windowSec", "openSec", "halfOpenProbes"})
    /\ Has(v, "failures") /\ v.failures >= 1
    /\ Required(v, "windowSec", 1, 3600) /\ Required(v, "openSec", 1, 3600)
    /\ Within(v, "halfOpenProbes", 1, 100)
ConcurrencyOk(v) ==
    /\ Only(v, {"maxInFlight", "per", "retryAfterSec"}) /\ Required(v, "maxInFlight", 1, 100000)
    /\ Has(v, "per") /\ v.per = "instance" /\ Within(v, "retryAfterSec", 0, 3600)
BackendAuthOk(v) ==
    LET fields == [none |-> {}, mtls |-> {}, basic |-> {"credentialRef"},
                   apikey |-> {"credentialRef", "in", "name"},
                   oauth2 |-> {"tokenProviderRef", "scope", "invalidateOnStatus"},
                   hmac |-> {"schemeRef", "dateHeader", "serviceShortcut"}]
        credential(f) == Has(v, f) /\ v[f] \in CredentialRefs
    IN /\ Has(v, "type") /\ v.type \in DOMAIN fields /\ Only(v, fields[v.type] \cup {"type"})
       /\ v.type \in {"basic", "apikey"} => credential("credentialRef")
       /\ v.type = "apikey" => SubscriptionKeyOk([in |-> Get(v, "in", ""), name |-> Get(v, "name", "")])
       /\ v.type = "oauth2" =>
            /\ Has(v, "tokenProviderRef") /\ v.tokenProviderRef \in Refs
            /\ OneOf(v, "invalidateOnStatus", SUBSET (400..405))
       /\ v.type = "hmac" =>
            /\ credential("schemeRef") /\ OneOf(v, "dateHeader", HeaderNames)
            /\ Has(v, "serviceShortcut") /\ v.serviceShortcut # ""
PassthroughOk(v) ==
    /\ Only(v, {"websocket", "sse", "streamIdleTimeoutSec", "maxConnectionSec",
                "maxConcurrentConnections", "maxBytesPerConnection"})
    /\ Within(v, "streamIdleTimeoutSec", 1, 86400) /\ Within(v, "maxConnectionSec", 1, 86400)
    /\ Within(v, "maxConcurrentConnections", 1, 100000)
    /\ Within(v, "maxBytesPerConnection", 0, 1024)   \* GiB
    /\ Get(v, "websocket", FALSE) \/ Get(v, "sse", FALSE)
ErrorFormatOk(v) ==
    /\ Only(v, {"shape", "soapVersion"}) /\ Has(v, "shape")
    /\ v.shape \in {"problem+json", "soap-fault", "jsonrpc"}
    /\ Has(v, "soapVersion") => v.soapVersion \in {"1.1", "1.2"} /\ v.shape = "soap-fault"

-----------------------------------------------------------------------------
(* Keys.  A per-operation key is a pair of the operation and the unit.     *)
Unscoped == {"auth.subscriptionKey", "auth.basic", "auth.jwt", "auth.introspection",
             "auth.mtls", "ipAllow", "cors", "preconditions", "validate", "rewrite",
             "headers.request", "headers.response", "transform", "kafkaProduce", "cache",
             "rateLimit", "quota", "timeoutMs", "retries", "circuitBreaker", "concurrency",
             "backendAuth", "passthrough", "errorFormat"}
GlobalUnits == Unscoped \ {"rewrite", "transform", "kafkaProduce", "cache", "backendAuth",
                           "passthrough", "errorFormat"}
OperationOverridable == {"validate", "rateLimit", "quota", "timeoutMs", "cache"}
(* The keys of one declared operation, and of one nobody declares. *)
ScopedUnit == [k \in {"op.validate", "op.rateLimit", "op.quota", "op.timeoutMs", "op.cache",
                      "op.cors", "stale.cache"} |->
    CASE k = "op.validate" -> "validate" [] k = "op.rateLimit" -> "rateLimit"
      [] k = "op.quota" -> "quota" [] k = "op.timeoutMs" -> "timeoutMs"
      [] k \in {"op.cache", "stale.cache"} -> "cache" [] k = "op.cors" -> "cors"]
DisabledKey == "disabled"
IsGloballyAttachable(k) == k \in GlobalUnits \cup {DisabledKey}

DisabledOk(v) == v.units \subseteq Unscoped \cup DOMAIN ScopedUnit
ValueOk(k, v, operationScoped) ==
    CASE k = "auth.subscriptionKey" -> SubscriptionKeyOk(v)
      [] k = "auth.basic" -> BasicOk(v)
      [] k = "auth.jwt" -> JwtOk(v)
      [] k = "auth.introspection" -> IntrospectionOk(v)
      [] k = "auth.mtls" -> MtlsOk(v)
      [] k = "ipAllow" -> IpAllowOk(v)
      [] k = "cors" -> CorsOk(v)
      [] k = "preconditions" -> PreconditionsOk(v)
      [] k = "validate" -> ValidateOk(v, operationScoped)
      [] k = "rewrite" -> RewriteOk(v)
      [] k \in {"headers.request", "headers.response"} -> HeaderRulesOk(v)
      [] k = "transform" -> TransformOk(v)
      [] k = "kafkaProduce" -> KafkaProduceOk(v)
      [] k = "cache" -> CacheOk(v)
      [] k = "rateLimit" -> RateLimitOk(v)
      [] k = "quota" -> QuotaOk(v)
      [] k = "timeoutMs" -> TimeoutOk(v)
      [] k = "retries" -> RetriesOk(v)
      [] k = "circuitBreaker" -> CircuitBreakerOk(v)
      [] k = "concurrency" -> ConcurrencyOk(v)
      [] k = "backendAuth" -> BackendAuthOk(v)
      [] k = "passthrough" -> PassthroughOk(v)
      [] k = "errorFormat" -> ErrorFormatOk(v)
      [] k = DisabledKey -> DisabledOk(v)
      [] OTHER -> FALSE
UnitOk(k, v) ==
    IF k \in DOMAIN ScopedUnit
    THEN ScopedUnit[k] \in OperationOverridable /\ ValueOk(ScopedUnit[k], v, TRUE)
    ELSE ValueOk(k, v, FALSE)
-----------------------------------------------------------------------------
(* Documents. *)
Nothing == [k \in {} |-> [none |-> "none"]]
Over(top, base) == [k \in DOMAIN top \cup DOMAIN base |->
                      IF k \in DOMAIN top THEN top[k] ELSE base[k]]
With(doc, k, v) == Over([x \in {k} |-> v], doc)
Without(doc, ks) == Restrict(doc, DOMAIN doc \ ks)

DisabledUnits(doc) == IF Has(doc, DisabledKey) THEN doc[DisabledKey].units \cap DOMAIN doc ELSE {}
ActiveDocument(doc) == Without(doc, DisabledUnits(doc) \cup {DisabledKey})

(* validateDocument, for a resource of some kind. *)
DocumentOk(stored, kind) ==
    LET doc == ActiveDocument(stored)
        carries(k) == Has(doc, k)
        counted == {k \in DOMAIN doc : k \in {"rateLimit", "quota", "op.rateLimit", "op.quota"}}
        streams(f) == carries("passthrough") /\ Get(doc["passthrough"], f, FALSE)
        asked(f) == IF carries("validate") THEN Get(doc["validate"], f, "disabled") ELSE "disabled"
        reshapes == carries("transform") /\ Get(doc["transform"], "response", "none") # "none"
    IN /\ \A k \in DOMAIN stored : UnitOk(k, stored[k])
       /\ counted # {} => carries("auth.subscriptionKey")
       /\ carries("errorFormat") =>
            /\ doc["errorFormat"].shape = "soap-fault" => kind = "soap"
            /\ doc["errorFormat"].shape = "jsonrpc" => kind \in {"mcp", "a2a"}
       /\ streams("websocket") => asked("request") = "disabled" /\ ~reshapes /\ ~carries("cache")
       /\ streams("sse") => asked("response") = "disabled" /\ ~reshapes /\ ~carries("cache")
       /\ reshapes => kind = "soap"
       /\ carries("kafkaProduce") => ~carries("rewrite") /\ ~carries("transform") /\ kind = "rest"

(* The two tiers: whole units, the resource's over the environment's. *)
InheritedUnits(doc) == Restrict(doc, {k \in DOMAIN doc : IsGloballyAttachable(k)})
Effective(mine, wide) == Over(mine, InheritedUnits(wide))
PolicyFor(a, e) == Effective(own[a][e], global[e])
Served(a, e) == DocumentOk(ActiveDocument(PolicyFor(a, e)), KindOf[a])

(* What an environment-wide unit is in a document: its value there, and    *)
(* whether it is switched off (globalUnitState's signature).               *)
Signature(wide, doc, k) ==
    [off |-> k # DisabledKey /\ k \in DisabledUnits(doc),
     value |-> IF Has(doc, k) THEN doc[k] ELSE wide[k]]
\* mutant: the list of switched-off units is not looked at
ValueChanges(wide, before, after) ==
    {k \in DOMAIN wide : Signature(wide, before, k).value # Signature(wide, after, k).value}
GlobalUnitChanges(wide, before, after) ==
    {k \in DOMAIN wide : Signature(wide, before, k) # Signature(wide, after, k)}
MayMove(by, e, before, after) ==
    by = "admin" \/ GlobalUnitChanges(InheritedUnits(global[e]), before, after) = {}

-----------------------------------------------------------------------------
(* Edits. *)
StoredUnits == Cardinality(UNION {{<<a, e, k>> : k \in DOMAIN own[a][e]} : a \in PolicyApis, e \in PolicyEnvs})
          + Cardinality(UNION {{<<e, k>> : k \in DOMAIN global[e]} : e \in PolicyEnvs})
Room(more) == StoredUnits + more <= MaxUnits

NoEdit == [by |-> "nobody", tier |-> "none"]
PolicyInit ==
    /\ own = [a \in PolicyApis |-> [e \in PolicyEnvs |-> Nothing]]
    /\ global = [e \in PolicyEnvs |-> Nothing]
    /\ queue = {} /\ edit = NoEdit

WriteOwn(by, a, e, doc) ==
    /\ own' = [own EXCEPT ![a][e] = doc]
    /\ edit' = [by |-> by, tier |-> "own"] /\ UNCHANGED <<global, queue>>

(* PUT /api/resources/:id/policy/units/:unitKey. *)
PutUnit(by, a, e, k, v) ==
    LET before == PolicyFor(a, e)
        assembled == With(before, k, v)
    IN /\ Room(Cardinality({k} \ DOMAIN own[a][e]))
       /\ UnitOk(k, v) /\ k # "stale.cache"
       /\ MayMove(by, e, before, assembled) /\ DocumentOk(assembled, KindOf[a])
       /\ WriteOwn(by, a, e, With(own[a][e], k, v))

(* DELETE of a unit judges the effective document without it: what the     *)
(* environment puts in its place is not in that document.                  *)
DeleteUnit(by, a, e, k) ==
    LET before == PolicyFor(a, e)
        remaining == Without(before, {k})
    IN /\ MayMove(by, e, before, remaining) /\ DocumentOk(remaining, KindOf[a])
       /\ WriteOwn(by, a, e, Without(own[a][e], {k}))

(* POST /api/resources/:id/policy/copy-from, of one unit. *)
CopyUnit(by, a, from, to, k) ==
    LET source == PolicyFor(a, from)
        before == PolicyFor(a, to)
        after == IF Has(source, k) THEN With(before, k, source[k]) ELSE Without(before, {k})
    IN /\ from # to /\ k \in Unscoped
       /\ Room(Cardinality(({k} \cap DOMAIN source) \ DOMAIN own[a][to]))
       /\ MayMove(by, to, before, after) /\ DocumentOk(after, KindOf[a])
       /\ WriteOwn(by, a, to, IF Has(source, k) THEN With(own[a][to], k, source[k])
                              ELSE Without(own[a][to], {k}))

(* A write of the environment's tier is judged against every API in it. *)
\* mutant: it is judged by itself
ConflictsAlone(e, wide) == {a \in PolicyApis : ~DocumentOk(wide, KindOf[a])}
Conflicts(e, wide) == {a \in PolicyApis : ~DocumentOk(Effective(own[a][e], wide), KindOf[a])}
WriteGlobal(e, doc) ==
    /\ Conflicts(e, doc) = {}
    /\ global' = [global EXCEPT ![e] = doc]
    /\ edit' = [by |-> "admin", tier |-> "global"] /\ UNCHANGED <<own, queue>>
PutGlobal(e, k, v) ==
    /\ Room(Cardinality({k} \ DOMAIN global[e])) /\ IsGloballyAttachable(k) /\ UnitOk(k, v)
    /\ WriteGlobal(e, With(global[e], k, v))
DeleteGlobal(e, k) == WriteGlobal(e, Without(global[e], {k}))
CopyGlobal(from, to) ==
    /\ from # to /\ Room(Cardinality(DOMAIN global[from] \ DOMAIN global[to]))
    /\ WriteGlobal(to, Over(global[from], global[to]))

DefaultKey == [in |-> "header", name |-> "X-Api-Key"]
(* PUT configure: the whole document, read from the effective one.  An     *)
(* owner's keeps the subscription key it had; no environment-wide unit may *)
(* be left out.  It is applied when a gateway of the environment can take  *)
(* it, which may be much later.                                            *)
SendDocument(by, a, e, sent) ==
    LET before == PolicyFor(a, e)
        wide == InheritedUnits(global[e])
        key == Get(before, "auth.subscriptionKey", DefaultKey)
        policy == IF by = "admin" THEN sent ELSE With(sent, "auth.subscriptionKey", key)
    IN /\ queue = {} /\ Cardinality(DOMAIN policy) <= MaxUnits
       /\ by = "owner" /\ Has(sent, "auth.subscriptionKey") => sent["auth.subscriptionKey"] = key
       /\ DOMAIN wide \cap DOMAIN before \subseteq DOMAIN policy
       /\ MayMove(by, e, before, policy) /\ DocumentOk(policy, KindOf[a])
       /\ queue' = {[api |-> a, env |-> e, by |-> by, policy |-> policy]}
       /\ edit' = [by |-> by, tier |-> "queue"] /\ UNCHANGED <<own, global>>

(* runOperations: a unit that equals the environment's is not stored.  One *)
(* route the build would leave out puts the whole transaction back.        *)
Activate(o) ==
    LET wide == InheritedUnits(global[o.env])
        kept == Restrict(o.policy, {k \in DOMAIN o.policy : ~(Has(wide, k) /\ wide[k] = o.policy[k])})
    IN /\ o \in queue /\ queue' = queue \ {o}
       /\ own' = [own EXCEPT ![o.api][o.env] = kept]
       /\ Room(Cardinality(DOMAIN kept) - Cardinality(DOMAIN own[o.api][o.env]))
       /\ \A a \in PolicyApis : DocumentOk(ActiveDocument(Effective(own'[a][o.env], global[o.env])), KindOf[a])
       /\ edit' = [by |-> o.by, tier |-> "apply"] /\ UNCHANGED global

OwnNext(people, offers, apis, envs) ==
    \E by \in people, a \in apis, e \in envs :
       \/ \E x \in offers : PutUnit(by, a, e, x.key, x.value)
       \/ \E k \in DOMAIN own[a][e] : DeleteUnit(by, a, e, k)
       \/ \E from \in envs : \E k \in DOMAIN PolicyFor(a, from) \cup DOMAIN own[a][e] :
             CopyUnit(by, a, from, e, k)
GlobalNext(offers) ==
    \E e \in PolicyEnvs :
       \/ \E x \in offers : PutGlobal(e, x.key, x.value)
       \/ \E k \in DOMAIN global[e] : DeleteGlobal(e, k)
       \/ \E from \in PolicyEnvs : CopyGlobal(from, e)
QueueNext(offers, apis, envs) ==
    \/ \E by \in {"owner", "admin"}, a \in apis, e \in envs :
          LET loaded == PolicyFor(a, e) IN
          \E sent \in {loaded} \cup {With(loaded, x.key, x.value) : x \in offers}
                      \cup {Without(loaded, {k}) : k \in DOMAIN loaded} :
             SendDocument(by, a, e, sent)
    \/ \E o \in queue : Activate(o)

PolicyEdits ==
    \/ OwnNext({"owner", "admin"}, Offers, PolicyApis, PolicyEnvs)
    \/ GlobalNext(Offers)
    \/ QueueNext(Offers, PolicyApis, PolicyEnvs)
PolicySpec == PolicyInit /\ [][PolicyEdits]_pvars

-----------------------------------------------------------------------------
(* An owner's unit write, detach or copy never changes how a unit that the *)
(* environment sets reaches one of its APIs: not its value, and not        *)
(* whether it is switched off (api/resources.ts, api/promotion.ts).        *)
OwnersLeaveGlobals ==
    [][edit' = [by |-> "owner", tier |-> "own"] =>
         \A a \in PolicyApis, e \in PolicyEnvs : PolicyFor(a, e)' # PolicyFor(a, e) =>
            \A k \in DOMAIN InheritedUnits(global[e]) \ {DisabledKey} :
               Get(ActiveDocument(PolicyFor(a, e))', k, Nothing) =
               Get(ActiveDocument(PolicyFor(a, e)), k, Nothing)]_pvars

(* No write by an owner, of the environment's tier, or of an operation     *)
(* that waited while both tiers changed, makes the build leave out an API  *)
(* that it served before.                                                  *)
WritesKeepServing ==
    [][pvars' # pvars /\ edit' # [by |-> "admin", tier |-> "own"] =>
         \A a \in PolicyApis, e \in PolicyEnvs :
            PolicyFor(a, e)' # PolicyFor(a, e) /\ Served(a, e) => Served(a, e)']_pvars

(* "It cannot happen through the API": the build never finds a released    *)
(* API whose effective document is invalid.  An administrator's detach of  *)
(* an override is judged without the environment's value it falls back to. *)
NeverLeftOut == \A a \in PolicyApis, e \in PolicyEnvs : Served(a, e)
=============================================================================
